---------------------------- MODULE Spec2Model ----------------------------
(***************************************************************************)
(* Game2AI: the host-authoritative simulation (gravity and surface         *)
(* locomotion, weapons, hazards, collision resolution) and the host tick   *)
(* that orchestrates them.                                                 *)
(*                                                                         *)
(* Numbers.  The program computes in IEEE doubles; the model computes in   *)
(* fixed point with round-to-nearest:                                      *)
(*   lengths     in tenths of a world unit          (140 units  = 1400)    *)
(*   velocities  in tenths of a unit per second     (300 u/s    = 3000)    *)
(*   time        in 1/600 s                         (dt = 1/60 s = 10)     *)
(*   angles      in 1/3142 of pi (about 1 mrad)     (pi = 3142)            *)
(*   unit vectors, cosines and sines scaled by 10000.                      *)
(* Every program constant below is written in these units.                 *)
(***************************************************************************)
EXTENDS Integers, Sequences, FiniteSets, TLC

VARIABLES
    players,          \* Game.players: sequence of Player records
    projectiles,      \* Game.projectiles
    meteorites,       \* Game.meteorites
    pickups,          \* Game.pickups
    pickupSpawnTimer, \* Game.pickupSpawnTimer
    hazards,          \* Game.hazards: the HazardSystem's fields
    inputBuffer,      \* HostState.inputBuffer entry of the remote peer
    matchTimer,       \* Game.matchTimer
    gameTime,         \* Game.gameTime
    state,            \* Game.state: "PLAYING" or "RANKING"
    events,           \* events returned by CollisionSystem.update this tick
    sent,             \* messages the host has broadcast during this tick
    pc,               \* position inside Game._updateHost / the operation run
    ci,               \* index of the projectile the collision loop is at
    ticks,            \* fixed-step ticks (or operations) performed so far
    lastCall,         \* the last operation applied and what it returned, or
                      \* the record of the jumps of the ticks so far
    peerPlayerMap,    \* Game.peerPlayerMap: peer id -> index into players
    connections,      \* NetworkManager.connections: ids of the peers connected
    clientState,      \* ClientState: _stateBuffer and sendTimer (on a client)
    now,              \* performance.now() on a client, in ms
    frameInput,       \* Game._frameInput: the input sampled for the frame, if any
    lobbyPlayers,     \* Game.lobbyPlayers: the entries of the lobby
    channels,         \* connections the host has set handlers on: peer id -> status
    loop,             \* Game.loop: the GameLoop object (lastTime, accumulator)
    inputManager      \* Game.input: the jump flags of the InputManager

-----------------------------------------------------------------------------
(* Arithmetic helpers                                                      *)

Abs(a) == IF a < 0 THEN -a ELSE a
Min(a, b) == IF a < b THEN a ELSE b
Max(a, b) == IF a > b THEN a ELSE b

\* Math.round(a / b) for b > 0: round half up, as Math.round does.
RDiv(a, b) == (2 * a + b) \div (2 * b)

\* F applied to the value of v: names an intermediate result (a local
\* `const' of the code) so that it is computed once, also where TLC
\* evaluates ENABLED.
With(v, F(_)) == CHOOSE y \in { F(x) : x \in {v} } : TRUE

\* a * f where f is a decimal factor given in hundredths (x *= 0.85).
Scale100(a, f) == RDiv(a * f, 100)

\* The largest f in b[2]..b[3]-1 with f * f <= b[1], by bisection.
SqrtSearch[b \in Nat \X Nat \X Nat] ==
    IF b[3] - b[2] <= 1 THEN b[2]
    ELSE LET mid == (b[2] + b[3]) \div 2
         IN  IF mid * mid <= b[1] THEN SqrtSearch[<< b[1], mid, b[3] >>]
                                  ELSE SqrtSearch[<< b[1], b[2], mid >>]

\* f or f + 1, whichever is nearer to the square root of n = b[1], f = b[2]
SqrtRound[b \in Nat \X Nat] ==
    IF b[1] - b[2] * b[2] > b[2] THEN b[2] + 1 ELSE b[2]

\* Math.sqrt, rounded to the nearest integer.
Sqrt(n) == SqrtRound[<< n, SqrtSearch[<< n, 0, 46341 >>] >>]

-----------------------------------------------------------------------------
(* Trigonometry on angle units of pi/3142, results scaled by 10000        *)

PI == 3142
HALF_PI == 1571
TWO_PI == 6284

\* cos x for 0 <= x <= pi/4 (Taylor polynomial to x^6).
CosP(x) ==
    LET x2 == RDiv(x * x, 100)
    IN  10000 - RDiv(x2, 2) + RDiv(x2 * x2, 240000)
              - RDiv(RDiv(x2 * x2, 1000) * x2, 72000000)

\* sin x for 0 <= x <= pi/4 (Taylor polynomial to x^5).
SinP(x) ==
    LET x2 == RDiv(x * x, 100)
    IN  10 * x - RDiv(x * x2, 6000) + RDiv(RDiv(x2 * x2, 1000) * x, 1200000)

\* cos x for 0 <= x <= pi/2.
CosQ(x) == IF x <= 785 THEN CosP(x) ELSE SinP(HALF_PI - x)

\* Math.cos
Cos(a) ==
    LET m == a % TWO_PI
    IN  IF m <= HALF_PI THEN CosQ(m)
        ELSE IF m <= PI THEN -CosQ(PI - m)
        ELSE IF m <= PI + HALF_PI THEN -CosQ(m - PI)
        ELSE CosQ(TWO_PI - m)

\* Math.sin
Sin(a) == Cos(a - HALF_PI)

\* Largest angle t in b[3]..b[4]-1 of the first quadrant with
\* tan t <= ay / ax, where ax = b[1] and ay = b[2]; by bisection.
AtanSearch[b \in Nat \X Nat \X Nat \X Nat] ==
    IF b[4] - b[3] <= 1 THEN b[3]
    ELSE LET mid == (b[3] + b[4]) \div 2
         IN  IF Sin(mid) * b[1] <= Cos(mid) * b[2]
             THEN AtanSearch[<< b[1], b[2], mid, b[4] >>]
             ELSE AtanSearch[<< b[1], b[2], b[3], mid >>]

\* The angle of the quadrant of (x, y) = (b[1], b[2]) whose first-quadrant
\* mirror image is t = b[3]
AtanQuadrant[b \in Int \X Int \X Nat] ==
    IF b[1] > 0 THEN (IF b[2] > 0 THEN b[3] ELSE -b[3])
                ELSE (IF b[2] > 0 THEN PI - b[3] ELSE b[3] - PI)

\* Math.atan2(y, x), in (-pi, pi].
Atan2(y, x) ==
    IF y = 0 THEN (IF x >= 0 THEN 0 ELSE PI)
    ELSE IF x = 0 THEN (IF y > 0 THEN HALF_PI ELSE -HALF_PI)
    ELSE AtanQuadrant[<< x, y, AtanSearch[<< Abs(x), Abs(y), 0, HALF_PI >>] >>]

-----------------------------------------------------------------------------
(* Vec2 and Physics                                                        *)

DT == 10                    \* GameLoop.fixedDt = 1/60 s
GRAVITY_CONSTANT == 2200
MAX_GRAVITY == 35000        \* Math.min(force, 3500)
MAX_VELOCITY == 8000
SURFACE_OFFSET == 20

Vec2(x, y) == [x |-> x, y |-> y]

\* v * dt for a velocity or an acceleration v (dt = 1/60 s).
TimesDt(v) == RDiv(v, 60)

\* Vec2.length of (dx, dy)
Length(dx, dy) == Sqrt(dx * dx + dy * dy)

\* Vec2.distTo
DistTo(x1, y1, x2, y2) == Length(x1 - x2, y1 - y2)

\* Vec2.normalize: the zero vector for the zero vector; unit vectors are
\* scaled by 10000.
Normalize(dx, dy) ==
    With(Length(dx, dy), LAMBDA len :
        IF len = 0 THEN Vec2(0, 0)
        ELSE Vec2(RDiv(dx * 10000, len), RDiv(dy * 10000, len)))

\* dir.scale(s) for a unit vector dir
ScaleUnit(dir, s) == Vec2(RDiv(dir.x * s, 10000), RDiv(dir.y * s, 10000))

-----------------------------------------------------------------------------
(* Planet                                                                  *)

Planet(x, y, radius, themeKey) ==
    [ x |-> x, y |-> y, radius |-> radius,
      mass |-> RDiv(radius * 3, 2),
      themeKey |-> themeKey,
      gravityRange |-> radius * 5 ]

\* Planet.isInside
IsInside(planet, x, y) == DistTo(x, y, planet.x, planet.y) < planet.radius

\* Planet.getSurfacePoint
GetSurfacePoint(planet, angle) ==
    Vec2(planet.x + RDiv(Cos(angle) * (planet.radius + 20), 10000),
         planet.y + RDiv(Sin(angle) * (planet.radius + 20), 10000))

\* One outcome of generateMap: the binary core, the inner ring with its
\* random offsets drawn as 0, and one of the randomly placed moons (a
\* volcanic one that touches the first inner planet).  The outer ring and
\* the other moons lie beyond the region the bounded runs below reach.
Planets ==
    << Planet(-1500, 0, 1400, "lava"),
       Planet(1500, 0, 1400, "ice"),
       Planet(5000, 0, 700, "forest"),
       Planet(0, 5000, 700, "crystal"),
       Planet(-5000, 0, 700, "desert"),
       Planet(0, -5000, 700, "lava"),
       Planet(5093, -976, 250, "lava") >>

PlanetIdx == 1..Len(Planets)

-----------------------------------------------------------------------------
(* Physics                                                                 *)

\* Physics.gravityAccel, in tenths of a unit per second squared
GravityAccel(x, y, planet) ==
    With(Vec2(planet.x - x, planet.y - y), LAMBDA diff :
    With(diff.x * diff.x + diff.y * diff.y, LAMBDA distSq :
        IF 2 * Sqrt(distSq) < planet.radius THEN Vec2(0, 0)
        ELSE With(RDiv(GRAVITY_CONSTANT * 100 * planet.mass, distSq),
                  LAMBDA force :
                  ScaleUnit(Normalize(diff.x, diff.y),
                            Min(force, MAX_GRAVITY)))))

\* distance from (x, y) to the surface of planet i
SurfaceDist(x, y, i) ==
    DistTo(x, y, Planets[i].x, Planets[i].y) - Planets[i].radius

\* Physics.nearestPlanet: the first planet (in array order) at the least
\* surface distance; the index of the planet, its distance in `distance'.
NearestPlanet(x, y) ==
    With({ << SurfaceDist(x, y, i), i >> : i \in PlanetIdx }, LAMBDA ds :
    With(CHOOSE q \in ds :
             \A r \in ds : q[1] < r[1] \/ (q[1] = r[1] /\ q[2] <= r[2]),
         LAMBDA q : [planet |-> q[2], distance |-> q[1]]))

\* Physics.projectToSurface
ProjectToSurface(x, y, planet) ==
    With(ScaleUnit(Normalize(x - planet.x, y - planet.y),
                   planet.radius + SURFACE_OFFSET),
         LAMBDA out : Vec2(planet.x + out.x, planet.y + out.y))

\* Physics.surfaceAngle
SurfaceAngle(x, y, planet) == Atan2(y - planet.y, x - planet.x)

\* Physics.circleCollision
CircleCollision(x1, y1, r1, x2, y2, r2) ==
    LET dx == x2 - x1
        dy == y2 - y1
    IN  dx * dx + dy * dy <= (r1 + r2) * (r1 + r2)

\* A clamp that lets every velocity through
ClampVelocityOff(vx, vy) == Vec2(vx, vy)

\* Physics.clampVelocity
ClampVelocity(vx, vy) ==
    IF Length(vx, vy) > MAX_VELOCITY
    THEN ScaleUnit(Normalize(vx, vy), MAX_VELOCITY)
    ELSE Vec2(vx, vy)

\* totalAccel.addMut(accel)
AddVec(a, b) == Vec2(a.x + b.x, a.y + b.y)

\* Sum over the planets i, i+1, ... in range of the gravitational
\* acceleration at (x, y) (GravitySystem.applyGravity, lines 190-197).
RECURSIVE TotalAccel(_, _, _)
TotalAccel(x, y, i) ==
    IF i > Len(Planets) THEN Vec2(0, 0)
    ELSE AddVec(IF DistTo(x, y, Planets[i].x, Planets[i].y)
                     < Planets[i].gravityRange
                THEN GravityAccel(x, y, Planets[i])
                ELSE Vec2(0, 0),
                TotalAccel(x, y, i + 1))

-----------------------------------------------------------------------------
(* Player                                                                  *)

\* A JavaScript value that may be undefined or null is a sequence of length
\* 0 (undefined, null) or 1 (the value).
Undefined == << >>
Def(v) == << v >>
IsDef(o) == Len(o) = 1
Val(o) == o[1]

PLAYER_RADIUS == 120
MAX_HEALTH == 100
RESPAWN_TIME == 1800
SPAWN_INVULNERABLE == 1200
DAMAGE_FLASH == 300
JUMP_FORCE == 3000
MOVE_SPEED == 2000
AIR_CONTROL == 800

\* new Player(id, playerIndex).  The constructor sets neither jumpGraceTimer
\* nor currentWeapon: both are undefined until something assigns them.
NewPlayer(id, playerIndex) ==
    [ id |-> id, index |-> playerIndex,
      x |-> 0, y |-> 0, vx |-> 0, vy |-> 0,
      isGrounded |-> FALSE, surfaceAngle |-> 0, moveX |-> 0,
      health |-> MAX_HEALTH, maxHealth |-> MAX_HEALTH, alive |-> TRUE,
      kills |-> 0, deaths |-> 0,
      shotsFired |-> 0, shotsHit |-> 0, damageDealt |-> 0,
      shootCooldown |-> 0, shootCooldownMax |-> 360,
      damageFlash |-> 0, respawnTimer |-> 0, invulnerable |-> 0,
      canJump |-> TRUE, jumpCooldown |-> 0,
      jumpGraceTimer |-> Undefined, currentWeapon |-> "undefined" ]

\* Player.spawn, lines 311-321, once the surface point is known
SpawnAt(p, surfPos, angle) ==
    [p EXCEPT !.x = surfPos.x, !.y = surfPos.y, !.vx = 0, !.vy = 0,
              !.isGrounded = TRUE, !.surfaceAngle = angle,
              !.health = p.maxHealth, !.alive = TRUE,
              !.damageFlash = 0, !.invulnerable = SPAWN_INVULNERABLE,
              !.respawnTimer = 0]

\* Player.spawn
Spawn(p, planet, angle) == SpawnAt(p, GetSurfacePoint(planet, angle), angle)

\* Player.takeDamage without the guard of its first line
TakeDamageUnguarded(p, amount) ==
    IF p.health - amount <= 0
    THEN [player |-> [p EXCEPT !.health = 0, !.damageFlash = DAMAGE_FLASH,
                               !.alive = FALSE, !.deaths = @ + 1,
                               !.respawnTimer = RESPAWN_TIME],
          died |-> TRUE]
    ELSE [player |-> [p EXCEPT !.health = @ - amount,
                               !.damageFlash = DAMAGE_FLASH],
          died |-> FALSE]

\* Player.takeDamage: the player afterwards and the value returned.
TakeDamage(p, amount) ==
    IF ~p.alive \/ p.invulnerable > 0
    THEN [player |-> p, died |-> FALSE]
    ELSE IF p.health - amount <= 0
    THEN [player |-> [p EXCEPT !.health = 0, !.damageFlash = DAMAGE_FLASH,
                               !.alive = FALSE, !.deaths = @ + 1,
                               !.respawnTimer = RESPAWN_TIME],
          died |-> TRUE]
    ELSE [player |-> [p EXCEPT !.health = @ - amount,
                               !.damageFlash = DAMAGE_FLASH],
          died |-> FALSE]

\* Player.updateTimers
UpdateTimers(p) ==
    [p EXCEPT
        !.shootCooldown = IF @ > 0 THEN @ - DT ELSE @,
        !.damageFlash = IF @ > 0 THEN @ - 3 * DT ELSE @,
        !.jumpCooldown = IF @ > 0 THEN @ - DT ELSE @,
        !.invulnerable = IF @ > 0 THEN @ - DT ELSE @,
        !.respawnTimer = IF ~p.alive /\ @ > 0 THEN @ - DT ELSE @]

\* Player.canShoot without the cooldown test
CanShootAlive(p) == p.alive

\* Player.canShoot
CanShoot(p) == p.alive /\ p.shootCooldown <= 0

\* Math.round(v * 10) / 10 of a length or velocity: they are kept in tenths.
Round1(v) == RDiv(v * 10, 10)
\* Math.round(a * 100) / 100 of an angle: 0.01 rad is 10 angle units.
RoundAngle(a) == 10 * RDiv(a, 10)
\* Math.round(t * 100) / 100 of a time: 0.01 s is 6 time units.
RoundTime(t) == 6 * RDiv(t, 6)

\* Player.serialize
SerializePlayer(p) ==
    [ id |-> p.id, idx |-> p.index,
      x |-> Round1(p.x), y |-> Round1(p.y),
      vx |-> Round1(p.vx), vy |-> Round1(p.vy),
      gr |-> p.isGrounded, sa |-> RoundAngle(p.surfaceAngle),
      mx |-> p.moveX,
      hp |-> p.health, al |-> p.alive, k |-> p.kills, d |-> p.deaths,
      df |-> RoundTime(p.damageFlash), rt |-> RoundTime(p.respawnTimer),
      iv |-> p.invulnerable > 0 ]

\* An applyState that leaves the receiver's clocks as they are
ApplyStateNoClocks(p, data) ==
    [p EXCEPT !.x = data.x, !.y = data.y, !.vx = data.vx, !.vy = data.vy,
              !.isGrounded = data.gr, !.surfaceAngle = data.sa,
              !.moveX = data.mx,
              !.health = data.hp, !.alive = data.al,
              !.kills = data.k, !.deaths = data.d]

\* Player.applyState
ApplyState(p, data) ==
    [p EXCEPT !.x = data.x, !.y = data.y, !.vx = data.vx, !.vy = data.vy,
              !.isGrounded = data.gr, !.surfaceAngle = data.sa,
              !.moveX = data.mx,
              !.health = data.hp, !.alive = data.al,
              !.kills = data.k, !.deaths = data.d,
              !.damageFlash = data.df, !.respawnTimer = data.rt,
              !.invulnerable = IF data.iv THEN 600 ELSE 0]

\* Player.fromSerialized
PlayerFromSerialized(data) == ApplyState(NewPlayer(data.id, data.idx), data)

-----------------------------------------------------------------------------
(* GravitySystem (rewritten revision)                                      *)

SURFACE_THRESHOLD == 80
JUMP_GRACE == 210

\* canLand when the jump-grace timer is ignored
CanLandAlways(p) == TRUE

\* const canLand = player.jumpGraceTimer <= 0: false while the timer is
\* undefined (undefined <= 0 is false in JavaScript).
CanLand(p) == IsDef(p.jumpGraceTimer) /\ Val(p.jumpGraceTimer) <= 0

\* _handlePlayerGravity, lines 230-239: the player is put on the surface.
StickToSurface(p, planet) ==
    With(ProjectToSurface(p.x, p.y, planet), LAMBDA surfPoint :
        [p EXCEPT !.x = surfPoint.x, !.y = surfPoint.y,
                  !.surfaceAngle = SurfaceAngle(surfPoint.x, surfPoint.y,
                                                planet)])

\* _handlePlayerGravity, lines 250-260: lava burns, forest heals.  `burn'
\* and `heal' are the outcomes of the two Math.random() < dt * 5 draws.
BiomeEffect(p, planet, burn, heal) ==
    IF planet.themeKey = "lava" /\ burn
    THEN TakeDamage(p, 1).player
    ELSE IF planet.themeKey = "forest" /\ p.health < p.maxHealth /\ heal
    THEN [p EXCEPT !.health = @ + 1]
    ELSE p

\* _handlePlayerGravity, lines 262-271: walking along the surface.
Walk(p, planet) ==
    IF Abs(p.moveX) > 10
    THEN With(p.surfaceAngle
                + (IF p.moveX > 0 THEN 1 ELSE -1)
                  * RDiv(1000 * (IF planet.themeKey = "desert"
                                 THEN Scale100(MOVE_SPEED, 60)
                                 ELSE MOVE_SPEED),
                         planet.radius * 60),
              LAMBDA newAngle :
         With(GetSurfacePoint(planet, newAngle), LAMBDA newPos :
              [p EXCEPT !.surfaceAngle = newAngle,
                        !.x = newPos.x, !.y = newPos.y]))
    ELSE p

\* currentFriction (lines 243-247), in hundredths
Friction(planet) == IF planet.themeKey = "ice" THEN 98 ELSE 85

\* GravitySystem._handlePlayerGravity, the grounded branch.
GroundedStep(p, planet, burn, heal) ==
    With(Walk(BiomeEffect(StickToSurface(p, planet), planet, burn, heal),
              planet),
         LAMBDA p3 : [p3 EXCEPT !.vx = Scale100(@, Friction(planet)),
                                !.vy = Scale100(@, Friction(planet))])

\* _handlePlayerGravity, lines 303-313: a player inside the planet is pushed
\* out and grounded, once it can land.
LandInside(p, planet, canLand) ==
    IF canLand /\ IsInside(planet, p.x, p.y)
    THEN With(ProjectToSurface(p.x, p.y, planet), LAMBDA surfPoint :
             [p EXCEPT !.x = surfPoint.x, !.y = surfPoint.y,
                       !.isGrounded = TRUE,
                       !.vx = Scale100(@, 20), !.vy = Scale100(@, 20)])
    ELSE p

\* _handlePlayerGravity, lines 280-300: gravity, motion, air control, the
\* surface angle and the velocity clamp of an airborne player.
Fly(p, planet, accel) ==
    With(Vec2(p.vx + TimesDt(accel.x), p.vy + TimesDt(accel.y)), LAMBDA v1 :
    With(Vec2(p.x + TimesDt(v1.x), p.y + TimesDt(v1.y)), LAMBDA pos :
    With(ClampVelocity(IF Abs(p.moveX) > 10
                       THEN v1.x + RDiv(p.moveX * AIR_CONTROL, 6000)
                       ELSE v1.x,
                       v1.y),
         LAMBDA vel :
         [p EXCEPT !.x = pos.x, !.y = pos.y, !.vx = vel.x, !.vy = vel.y,
                   !.surfaceAngle = SurfaceAngle(pos.x, pos.y, planet)])))

\* GravitySystem._handlePlayerGravity, the airborne branch.
AirborneStep(p, planet, accel, canLand) ==
    LandInside(Fly(p, planet, accel), planet, canLand)

\* _handlePlayerGravity, lines 218-224: landing on a surface within the
\* threshold.
Land(p, dist, canLand) ==
    IF dist <= SURFACE_THRESHOLD /\ ~p.isGrounded /\ canLand
    THEN [p EXCEPT !.isGrounded = TRUE,
                   !.vx = Scale100(@, 30), !.vy = Scale100(@, 30)]
    ELSE p

\* _handlePlayerGravity on the player as the landing check left it
GroundedOrAirborne(p, planet, accel, canLand, burn, heal) ==
    IF p.isGrounded
    THEN GroundedStep(p, planet, burn, heal)
    ELSE AirborneStep(p, planet, accel, canLand)

\* GravitySystem.applyGravity and _handlePlayerGravity for one player.
HandlePlayerGravity(p, burn, heal) ==
    With(NearestPlanet(p.x, p.y), LAMBDA nearest :
        GroundedOrAirborne(Land(p, nearest.distance, CanLand(p)),
                           Planets[nearest.planet],
                           TotalAccel(p.x, p.y, 1), CanLand(p), burn, heal))

\* GravitySystem.jump: the player afterwards and the value returned.
Jump(p, planet) ==
    IF ~p.isGrounded \/ ~p.canJump
    THEN [player |-> p, ok |-> FALSE]
    ELSE With(Normalize(p.x - planet.x, p.y - planet.y), LAMBDA jumpDir :
         With(ScaleUnit(jumpDir, IF planet.themeKey = "crystal"
                                 THEN RDiv(JUMP_FORCE * 3, 2)
                                 ELSE JUMP_FORCE),
              LAMBDA v :
         With(ScaleUnit(jumpDir, SURFACE_THRESHOLD + 40), LAMBDA off :
              [player |-> [p EXCEPT !.vx = v.x, !.vy = v.y,
                                    !.isGrounded = FALSE,
                                    !.jumpGraceTimer = Def(JUMP_GRACE),
                                    !.x = @ + off.x, !.y = @ + off.y],
               ok |-> TRUE])))

-----------------------------------------------------------------------------
(* Projectile and Meteorite                                                *)

\* new Projectile(x, y, vx, vy, ownerId)
NewProjectile(x, y, vx, vy, ownerId) ==
    [ x |-> x, y |-> y, vx |-> vx, vy |-> vy, ownerId |-> ownerId,
      radius |-> 30, damage |-> 20, lifetime |-> 1800, age |-> 0,
      active |-> TRUE ]

\* Projectile.update
ProjectileUpdate(q) ==
    [q EXCEPT !.x = @ + TimesDt(q.vx), !.y = @ + TimesDt(q.vy),
              !.age = @ + DT,
              !.active = IF q.age + DT >= q.lifetime THEN FALSE ELSE @]

\* new Meteorite(x, y, vx, vy, radius); rotation and rotationSpeed are the
\* two Math.random() draws of the constructor.
NewMeteorite(x, y, vx, vy, radius, rotation, rotationSpeed) ==
    [ x |-> x, y |-> y, vx |-> vx, vy |-> vy, radius |-> radius,
      rotation |-> rotation, rotationSpeed |-> rotationSpeed,
      active |-> TRUE, lifetime |-> 6000, age |-> 0, damage |-> 50 ]

\* Meteorite.update
MeteoriteUpdate(m) ==
    [m EXCEPT !.x = @ + TimesDt(m.vx), !.y = @ + TimesDt(m.vy),
              !.rotation = @ + TimesDt(m.rotationSpeed),
              !.age = @ + DT,
              !.active = IF m.age + DT >= m.lifetime THEN FALSE ELSE @]

-----------------------------------------------------------------------------
(* WeaponSystem (part_003 revision)                                        *)

PELLET_COUNT == 7
SPREAD_ANGLE == 786         \* Math.PI / 4
PELLET_SPEED == 12000
MUZZLE_OFFSET == 300

\* The weapon of the earlier revision of WeaponSystem
\* (src/js/systems/WeaponSystem.js): five pellets over 30 degrees at speed
\* 500, and the player's shootCooldownMax of 0.6 s as the cooldown.
EarlierWeaponProfile(weapon) ==
    [ pelletCount |-> 5, spreadAngle |-> 524, pelletSpeed |-> 5000,
      cooldown |-> 360, damage |-> 15, radius |-> 20,
      lifetime |-> 900, recoilForce |-> 1500 ]

\* The weapon profile WeaponSystem.fire resolves from the weapon tag.
WeaponProfile(weapon) ==
    IF weapon = "SNIPER"
    THEN [ pelletCount |-> 1, spreadAngle |-> 0, pelletSpeed |-> 22000,
           cooldown |-> 600, damage |-> 70, radius |-> 40,
           lifetime |-> 1200, recoilForce |-> 4000 ]
    ELSE IF weapon = "MACHINE_GUN"
    THEN [ pelletCount |-> 1, spreadAngle |-> 262, pelletSpeed |-> 10000,
           cooldown |-> 72, damage |-> 10, radius |-> 20,
           lifetime |-> 900, recoilForce |-> 300 ]
    ELSE [ pelletCount |-> PELLET_COUNT, spreadAngle |-> SPREAD_ANGLE,
           pelletSpeed |-> PELLET_SPEED,
           cooldown |-> 210, damage |-> 15, radius |-> 20,
           lifetime |-> 900, recoilForce |-> 1500 ]

\* The base aim angle of pellet i (0-based) of a shot aimed at baseAngle.
PelletAngle(w, baseAngle, i) ==
    IF w.pelletCount > 1
    THEN baseAngle - RDiv(w.spreadAngle, 2)
                   + RDiv(w.spreadAngle * i, w.pelletCount - 1)
    ELSE baseAngle - RDiv(w.spreadAngle, 2) + RDiv(w.spreadAngle, 2)

\* The pellets of one shot (fire, lines 68-87): pellet i leaves the muzzle
\* at its angle; jitter.angle and jitter.speed are the outcomes of the random
\* perturbations (Math.random() - 0.5) * 0.05 and (Math.random() - 0.5) * 50.
Pellets(w, ownerId, muzzle, baseAngle, jitter) ==
    [i \in 1..w.pelletCount |->
        [ NewProjectile(muzzle.x, muzzle.y,
                        RDiv(Cos(PelletAngle(w, baseAngle, i - 1) + jitter.angle)
                             * (w.pelletSpeed + jitter.speed), 10000),
                        RDiv(Sin(PelletAngle(w, baseAngle, i - 1) + jitter.angle)
                             * (w.pelletSpeed + jitter.speed), 10000),
                        ownerId)
          EXCEPT !.damage = w.damage, !.radius = w.radius,
                 !.lifetime = w.lifetime ]]

\* fire, lines 55-56 and 95-96: cooldown, shot count and recoil
Recoil(p, w, baseAngle) ==
    [p EXCEPT !.shootCooldownMax = w.cooldown,
              !.shootCooldown = w.cooldown,
              !.shotsFired = @ + 1,
              !.vx = @ - RDiv(Cos(baseAngle) * w.recoilForce, 10000),
              !.vy = @ - RDiv(Sin(baseAngle) * w.recoilForce, 10000)]

\* WeaponSystem.fire(player, targetX, targetY, particles): the player
\* afterwards, the projectiles returned and whether a muzzle flash was
\* emitted.
Fire(p, targetX, targetY, jitter) ==
    IF ~CanShoot(p)
    THEN [player |-> p, projectiles |-> << >>, muzzleFlash |-> FALSE]
    ELSE With(WeaponProfile(IF p.currentWeapon = "undefined" THEN "SHOTGUN"
                            ELSE p.currentWeapon),
              LAMBDA w :
         With(Atan2(targetY - p.y, targetX - p.x), LAMBDA baseAngle :
         With(Vec2(p.x + RDiv(Cos(baseAngle) * MUZZLE_OFFSET, 10000),
                   p.y + RDiv(Sin(baseAngle) * MUZZLE_OFFSET, 10000)),
              LAMBDA muzzle :
              [ player |-> Recoil(p, w, baseAngle),
                projectiles |-> Pellets(w, p.id, muzzle, baseAngle, jitter),
                muzzleFlash |-> TRUE ])))

-----------------------------------------------------------------------------
(* CollisionSystem                                                         *)

\* players.find(p => p.id === id): the index of the first such player, 0
\* when there is none.
FindPlayer(ps, id) ==
    IF \E k \in 1..Len(ps) : ps[k].id = id
    THEN CHOOSE k \in 1..Len(ps) :
             ps[k].id = id /\ \A j \in 1..(k - 1) : ps[j].id # id
    ELSE 0

\* The overlap test of lines 24-27: the projectile against the player's
\* circle, widened by 4 units
Overlaps(proj, player) ==
    CircleCollision(proj.x, proj.y, proj.radius,
                    player.x, player.y, PLAYER_RADIUS + 40)

\* The projectile loop without the owner test of line 21
ProjectileTargetsAny(ps, proj) ==
    { k \in 1..Len(ps) :
        /\ ps[k].alive
        /\ ~(ps[k].invulnerable > 0)
        /\ Overlaps(proj, ps[k]) }

\* The players a projectile can hit (lines 20-27): alive, not its owner, not
\* invulnerable, overlapping.
ProjectileTargets(ps, proj) ==
    { k \in 1..Len(ps) :
        /\ ps[k].alive
        /\ ps[k].id # proj.ownerId
        /\ ~(ps[k].invulnerable > 0)
        /\ Overlaps(proj, ps[k]) }

\* The hit of lines 32-61 that always pushes a `hit' event and never counts
\* a kill
CreditHitOnly(c, i, k, dmg, a) ==
    [ players |->
          [n \in 1..Len(c.players) |->
              IF n = a
              THEN [(IF n = k THEN dmg.player ELSE c.players[n]) EXCEPT
                       !.shotsHit = @ + 1,
                       !.damageDealt = @ + c.projectiles[i].damage]
              ELSE IF n = k THEN dmg.player
              ELSE c.players[n]],
      projectiles |-> [c.projectiles EXCEPT ![i].active = FALSE],
      meteorites |-> c.meteorites,
      events |-> Append(c.events,
                   [type |-> "hit", targetId |-> c.players[k].id,
                    damage |-> c.projectiles[i].damage]) ]

\* Lines 32-61: the hit of projectile i on player k is credited to the
\* attacker a (0: no such player), and the event is pushed.
CreditHit(c, i, k, dmg, a) ==
    [ players |->
          [n \in 1..Len(c.players) |->
              IF n = a
              THEN [(IF n = k THEN dmg.player ELSE c.players[n]) EXCEPT
                       !.shotsHit = @ + 1,
                       !.damageDealt = @ + c.projectiles[i].damage,
                       !.kills = IF dmg.died THEN @ + 1 ELSE @]
              ELSE IF n = k THEN dmg.player
              ELSE c.players[n]],
      projectiles |-> [c.projectiles EXCEPT ![i].active = FALSE],
      meteorites |-> c.meteorites,
      events |-> Append(c.events,
                   IF dmg.died
                   THEN [type |-> "kill",
                         killerId |-> c.projectiles[i].ownerId,
                         victimId |-> c.players[k].id]
                   ELSE [type |-> "hit", targetId |-> c.players[k].id,
                         damage |-> c.projectiles[i].damage]) ]

\* Lines 28-62: projectile i hits player k.
ProjectileHit(c, i, k) ==
    CreditHit(c, i, k, TakeDamage(c.players[k], c.projectiles[i].damage),
              FindPlayer(c.players, c.projectiles[i].ownerId))

\* Lines 28-62 applied to every player of a set in turn, as the inner loop
\* does when the break of line 62 is missing
RECURSIVE HitEach(_, _, _)
HitEach(c, i, targets) ==
    IF targets = {} THEN c
    ELSE With(CHOOSE k \in targets : \A j \in targets : k <= j, LAMBDA k :
             HitEach(ProjectileHit(c, i, k), i, targets \ {k}))

\* The body of the projectile loop without the break of line 62
ProjectileVsAll(c, i) ==
    IF ~c.projectiles[i].active THEN c
    ELSE HitEach(c, i, ProjectileTargets(c.players, c.projectiles[i]))

\* The body of the projectile loop for projectile i (lines 16-64), on the
\* collections as projectiles i+1.. have left them: the first player in
\* array order that the projectile can hit is hit.
ProjectileVsPlayers(c, i) ==
    IF ~c.projectiles[i].active THEN c
    ELSE With(ProjectileTargets(c.players, c.projectiles[i]), LAMBDA targets :
             IF targets = {} THEN c
             ELSE ProjectileHit(c, i,
                      CHOOSE k \in targets : \A j \in targets : k <= j))

\* Projectile <-> Player (lines 15-65): the loop runs from the last
\* projectile to the first.
RECURSIVE ProjectilePlayerLoop(_, _)
ProjectilePlayerLoop(c, i) ==
    IF i < 1 THEN c
    ELSE ProjectilePlayerLoop(ProjectileVsPlayers(c, i), i - 1)

\* Projectile <-> Planet (lines 68-84)
ProjectilePlanetLoop(c) ==
    [c EXCEPT !.projectiles =
        [i \in 1..Len(c.projectiles) |->
            LET proj == c.projectiles[i]
            IN  IF proj.active
                   /\ \E n \in PlanetIdx : IsInside(Planets[n], proj.x, proj.y)
                THEN [proj EXCEPT !.active = FALSE]
                ELSE proj]]

\* The body of the inner loop of Meteorite <-> Player for meteorite i and
\* player k (lines 90-110).
MeteoriteVsPlayer(c, i, k) ==
    LET met == c.meteorites[i]
        player == c.players[k]
    IN  IF ~player.alive \/ player.invulnerable > 0 THEN c
        ELSE IF ~CircleCollision(met.x, met.y, met.radius,
                                 player.x, player.y, PLAYER_RADIUS + 20)
        THEN c
        ELSE LET dmg == TakeDamage(player, met.damage)
             IN  [c EXCEPT !.players[k] = dmg.player,
                           !.events = IF dmg.died
                                      THEN Append(@, [type |-> "kill",
                                                      killerId |-> "__meteorite",
                                                      victimId |-> player.id])
                                      ELSE @]

\* Meteorite <-> Player (lines 87-112): meteorites in order, and for each
\* the players in order; (i, k) is the next pair to examine.
RECURSIVE MeteoritePlayerLoop(_, _, _)
MeteoritePlayerLoop(c, i, k) ==
    IF i > Len(c.meteorites) THEN c
    ELSE IF ~c.meteorites[i].active \/ k > Len(c.players)
    THEN MeteoritePlayerLoop(c, i + 1, 1)
    ELSE MeteoritePlayerLoop(MeteoriteVsPlayer(c, i, k), i, k + 1)

\* Meteorite <-> Planet (lines 115-131), from the last meteorite to the
\* first.
RECURSIVE MeteoritePlanetLoop(_, _)
MeteoritePlanetLoop(c, i) ==
    IF i < 1 THEN c
    ELSE LET met == c.meteorites[i]
             hit == met.active
                    /\ \E n \in PlanetIdx :
                          CircleCollision(met.x, met.y, RDiv(met.radius, 2),
                                          Planets[n].x, Planets[n].y,
                                          Planets[n].radius)
         IN  MeteoritePlanetLoop(
                 IF hit
                 THEN [c EXCEPT !.meteorites[i].active = FALSE,
                                !.events = Append(@, [type |-> "meteorite_impact",
                                                      x |-> met.x, y |-> met.y])]
                 ELSE c,
                 i - 1)

\* The elements of a sequence that are active (the splice loops, lines
\* 134-139).
RECURSIVE ActiveOnly(_)
ActiveOnly(seq) ==
    IF seq = << >> THEN << >>
    ELSE IF Head(seq).active THEN << Head(seq) >> \o ActiveOnly(Tail(seq))
    ELSE ActiveOnly(Tail(seq))

\* A clean-up that removes the inactive projectiles only
CleanUpProjectiles(c) == [c EXCEPT !.projectiles = ActiveOnly(@)]

CleanUp(c) ==
    [c EXCEPT !.projectiles = ActiveOnly(@), !.meteorites = ActiveOnly(@)]

\* CollisionSystem.update: the collections afterwards and the events
\* returned.
CollisionUpdate(ps, projs, mets) ==
    LET c0 == [ players |-> ps, projectiles |-> projs, meteorites |-> mets,
                events |-> << >> ]
        c1 == ProjectilePlayerLoop(c0, Len(projs))
        c2 == ProjectilePlanetLoop(c1)
        c3 == MeteoritePlayerLoop(c2, 1, 1)
        c4 == MeteoritePlanetLoop(c3, Len(mets))
    IN  CleanUp(c4)

-----------------------------------------------------------------------------
(* Game: input processing (main.js)                                        *)

\* A sampled input.  shootTarget is Undefined (null) or Def of a point; a
\* remote input carries it in world coordinates, and for the local input the
\* point is the world position the camera maps the screen point to.
Input(moveX, jump, shootTarget) ==
    [ moveX |-> moveX, jump |-> jump, shootTarget |-> shootTarget ]

NoInput == Input(0, FALSE, Undefined)

\* _processInput, lines 557-568: the move intent is stored, and a jump input
\* calls GravitySystem.jump on the nearest planet.
MoveAndJump(p, input) ==
    IF input.jump
    THEN Jump([p EXCEPT !.moveX = input.moveX],
              Planets[NearestPlanet(p.x, p.y).planet])
    ELSE [player |-> [p EXCEPT !.moveX = input.moveX], ok |-> FALSE]

\* _processInput, lines 581-599, on the player as the jump left it
Shoot(j, input, jitter) ==
    IF IsDef(input.shootTarget)
    THEN With(Fire(j.player, Val(input.shootTarget).x,
                   Val(input.shootTarget).y, jitter),
              LAMBDA f :
             [player |-> f.player, projectiles |-> f.projectiles,
              fired |-> Def([count |-> Len(f.projectiles),
                             muzzleFlash |-> f.muzzleFlash]),
              jumped |-> j.ok])
    ELSE [player |-> j.player, projectiles |-> << >>, fired |-> Undefined,
          jumped |-> j.ok]

\* Game._processInput(player, input, dt): the player afterwards, the
\* projectiles pushed, what WeaponSystem.fire returned when it was called,
\* and whether a jump took place.  The aim angle and the facing flag, used
\* by the renderer only, are not part of the player record.
ProcessInput(p, input, jitter) ==
    IF ~p.alive
    THEN [player |-> p, projectiles |-> << >>, fired |-> Undefined,
          jumped |-> FALSE]
    ELSE Shoot(MoveAndJump(p, input), input, jitter)

\* GravitySystem.update run after the timers of the tick have been counted
\* down
GravityUpdateLate(p, burn, heal) ==
    IF ~p.alive THEN p
    ELSE HandlePlayerGravity(UpdateTimers(p), burn, heal)

\* GravitySystem.update without the test of line 173
GravityUpdateAll(p, burn, heal) == HandlePlayerGravity(p, burn, heal)

\* GravitySystem.update for one entity of the list: dead players are skipped.
GravityUpdate(p, burn, heal) ==
    IF ~p.alive THEN p ELSE HandlePlayerGravity(p, burn, heal)

-----------------------------------------------------------------------------
(* Pickups (Particle.js, main.js)                                          *)

PICKUP_RADIUS == 150
PICKUP_INTERVAL == 6000     \* this.pickupSpawnTimer = 10
PICKUP_HEAL == 40
MAX_PICKUPS == 5

\* new Pickup(id, x, y, typeKey); time is the Math.random() * 10 draw.
NewPickup(id, x, y, typeKey, time) ==
    [ id |-> id, x |-> x, y |-> y, typeKey |-> typeKey, active |-> TRUE,
      time |-> time ]

\* Pickup.update
PickupUpdate(k) == [k EXCEPT !.time = @ + 3 * DT]

\* The spawn position of a pickup over `planet' at `angle' (main.js 431-438).
PickupSpawnPoint(planet, angle) ==
    With(GetSurfacePoint(planet, angle), LAMBDA pos :
    With(ScaleUnit(Normalize(pos.x - planet.x, pos.y - planet.y),
                   planet.radius + 300),
         LAMBDA off : Vec2(planet.x + off.x, planet.y + off.y)))

\* _handlePickupEffect without the Math.min of line 657
PickupEffectUncapped(p, pickup) ==
    IF pickup.typeKey = "HEALTH"
    THEN [p EXCEPT !.health = p.health + PICKUP_HEAL]
    ELSE [p EXCEPT !.currentWeapon = pickup.typeKey]

\* Game._handlePickupEffect
HandlePickupEffect(p, pickup) ==
    IF pickup.typeKey = "HEALTH"
    THEN [p EXCEPT !.health = Min(p.maxHealth, p.health + PICKUP_HEAL)]
    ELSE [p EXCEPT !.currentWeapon = pickup.typeKey]

\* The pickup-collision loops (main.js 444-455): players in order, and for
\* each the pickups in order; (i, k) is the next pair to examine.
RECURSIVE PickupCollisions(_, _, _)
PickupCollisions(c, i, k) ==
    IF i > Len(c.players) THEN c
    ELSE IF ~c.players[i].alive \/ k > Len(c.pickups)
    THEN PickupCollisions(c, i + 1, 1)
    ELSE LET player == c.players[i]
             pickup == c.pickups[k]
         IN  IF pickup.active
                /\ DistTo(player.x, player.y, pickup.x, pickup.y)
                     < PLAYER_RADIUS + PICKUP_RADIUS
             THEN PickupCollisions(
                      [ players |-> [c.players EXCEPT
                                        ![i] = HandlePickupEffect(player, pickup)],
                        pickups |-> [c.pickups EXCEPT ![k].active = FALSE],
                        events |-> Append(c.events,
                                     [type |-> "pickup", playerId |-> player.id,
                                      pickupId |-> pickup.id,
                                      pickupType |-> pickup.typeKey]) ],
                      i, k + 1)
             ELSE PickupCollisions(c, i, k + 1)

-----------------------------------------------------------------------------
(* HazardSystem (part_004)                                                 *)

BASE_INTERVAL == 2400       \* baseInterval = 4
MIN_INTERVAL == 600         \* minInterval = 1
SHOWER_INTERVAL == 18000    \* showerInterval = 30
SHOWER_DURATION == 3000     \* showerDuration = 5
SHOWER_SPAWN_INTERVAL == 180 \* 0.3
MAP_RADIUS == 7000          \* mapRadius = 700
MAX_METEORITES == 15

\* HazardSystem.reset applied to a system in state h
HazardReset(h) ==
    [h EXCEPT !.spawnTimer = BASE_INTERVAL, !.gameTime = 0,
              !.showerTimer = 0, !.showerActive = FALSE]

\* new HazardSystem()
NewHazards ==
    [ spawnTimer |-> 0, gameTime |-> 0, showerTimer |-> 0,
      showerActive |-> FALSE, showerElapsed |-> 0 ]

\* A spawner without the limit on the meteorites in play
SpawnMeteoriteUnlimited(mets, r) ==
    LET spawnDist == MAP_RADIUS + 1000
        targetAngle == r.angle + PI + r.aim
    IN  Append(mets,
            NewMeteorite(RDiv(Cos(r.angle) * spawnDist, 10000),
                         RDiv(Sin(r.angle) * spawnDist, 10000),
                         RDiv(Cos(targetAngle) * r.speed, 10000),
                         RDiv(Sin(targetAngle) * r.speed, 10000),
                         r.radius, r.rotation, r.rotationSpeed))

\* HazardSystem._spawnMeteorite; r holds the Math.random() outcomes: the
\* edge angle, the aim deviation, the speed, the radius, and the two draws
\* of the Meteorite constructor.
SpawnMeteorite(mets, r) ==
    IF Len(mets) > MAX_METEORITES THEN mets
    ELSE LET spawnDist == MAP_RADIUS + 1000
             targetAngle == r.angle + PI + r.aim
         IN  Append(mets,
                 NewMeteorite(RDiv(Cos(r.angle) * spawnDist, 10000),
                              RDiv(Sin(r.angle) * spawnDist, 10000),
                              RDiv(Cos(targetAngle) * r.speed, 10000),
                              RDiv(Sin(targetAngle) * r.speed, 10000),
                              r.radius, r.rotation, r.rotationSpeed))

\* A spawner whose showers do not shorten the spawn interval
HazardUpdateNoShower(h, mets, r) ==
    LET gameTime1 == h.gameTime + DT
        spawnTimer1 == h.spawnTimer - DT
        showerTimer1 == h.showerTimer + DT
        interval == Max(MIN_INTERVAL, BASE_INTERVAL - RDiv(gameTime1, 20))
        begins == showerTimer1 >= SHOWER_INTERVAL
        active1 == h.showerActive \/ begins
        elapsed1 == IF begins THEN 0 ELSE h.showerElapsed
        elapsed2 == IF active1 THEN elapsed1 + DT ELSE elapsed1
        active2 == active1 /\ ~(elapsed2 >= SHOWER_DURATION)
        spawns == spawnTimer1 <= 0
    IN  [ hazards |-> [ spawnTimer |-> IF spawns THEN interval
                                       ELSE spawnTimer1,
                        gameTime |-> gameTime1,
                        showerTimer |-> IF begins THEN 0 ELSE showerTimer1,
                        showerActive |-> active2,
                        showerElapsed |-> elapsed2 ],
          meteorites |-> IF spawns THEN SpawnMeteorite(mets, r) ELSE mets,
          spawned |-> spawns ]

\* HazardSystem.update: the system and the meteorite list afterwards.
HazardUpdate(h, mets, r) ==
    LET gameTime1 == h.gameTime + DT
        spawnTimer1 == h.spawnTimer - DT
        showerTimer1 == h.showerTimer + DT
        \* baseInterval - gameTime * 0.05, in time units
        interval == Max(MIN_INTERVAL, BASE_INTERVAL - RDiv(gameTime1, 20))
        begins == showerTimer1 >= SHOWER_INTERVAL
        active1 == h.showerActive \/ begins
        elapsed1 == IF begins THEN 0 ELSE h.showerElapsed
        elapsed2 == IF active1 THEN elapsed1 + DT ELSE elapsed1
        active2 == active1 /\ ~(elapsed2 >= SHOWER_DURATION)
        effectiveInterval == IF active2 THEN SHOWER_SPAWN_INTERVAL ELSE interval
        spawns == spawnTimer1 <= 0
    IN  [ hazards |-> [ spawnTimer |-> IF spawns THEN effectiveInterval
                                       ELSE spawnTimer1,
                        gameTime |-> gameTime1,
                        showerTimer |-> IF begins THEN 0 ELSE showerTimer1,
                        showerActive |-> active2,
                        showerElapsed |-> elapsed2 ],
          meteorites |-> IF spawns THEN SpawnMeteorite(mets, r) ELSE mets,
          spawned |-> spawns ]

-----------------------------------------------------------------------------
(* Serialization of the game state (main.js 616-624)                       *)

\* Math.round(v) of a length or velocity kept in tenths
Round0(v) == 10 * RDiv(v, 10)

\* Projectile.serialize
SerializeProjectile(q) ==
    [ x |-> Round0(q.x), y |-> Round0(q.y),
      vx |-> Round0(q.vx), vy |-> Round0(q.vy),
      o |-> q.ownerId, a |-> RoundTime(q.age) ]

\* Meteorite.serialize (the outline `sh', used for drawing, is left out)
SerializeMeteorite(m) ==
    [ x |-> Round0(m.x), y |-> Round0(m.y),
      vx |-> Round0(m.vx), vy |-> Round0(m.vy),
      r |-> m.radius, rot |-> RoundAngle(m.rotation) ]

\* Game._serializeGameState; 0.1 s is 60 time units
SerializeGameState(ps, projs, mets, timer, time) ==
    [ players |-> [k \in 1..Len(ps) |-> SerializePlayer(ps[k])],
      projectiles |-> [k \in 1..Len(projs) |-> SerializeProjectile(projs[k])],
      meteorites |-> [k \in 1..Len(mets) |-> SerializeMeteorite(mets[k])],
      timer |-> 60 * RDiv(timer, 60), time |-> 60 * RDiv(time, 60) ]

-----------------------------------------------------------------------------
(* The match on the host                                                   *)

MATCH_TIME == 108000        \* this.matchTime = 180
KILL_TARGET == 10
VOID_RADIUS == 20000        \* distFromCenter > 2000

\* Ticks of Game._updateHost explored from each initial state
MaxTicks == 1

HostId == "host"
PeerId == "peer1"

\* The player _startGame creates for lobby entry i and _initMatch rebuilds
\* from its serialized form.
StartPlayer(id, i) ==
    PlayerFromSerialized(
        SerializePlayer(Spawn(NewPlayer(id, i), Planets[i + 2], -HALF_PI)))

\* The match as _initMatch leaves it on the host, and once the countdown is
\* over.
StartMatch ==
    [ players |-> << StartPlayer(HostId, 0), StartPlayer(PeerId, 1) >>,
      projectiles |-> << >>, meteorites |-> << >>, pickups |-> << >>,
      pickupSpawnTimer |-> 0, hazards |-> HazardReset(NewHazards),
      inputBuffer |-> Undefined, matchTimer |-> MATCH_TIME, gameTime |-> 0 ]

\* The match two seconds in, nobody having moved: spawn protection is over,
\* and the pickup of the first tick floats above the host.
SettledMatch ==
    LET settle(p) == [HandlePlayerGravity(p, FALSE, FALSE)
                         EXCEPT !.invulnerable = 0]
        at == PickupSpawnPoint(Planets[2], -HALF_PI)
    IN  [ StartMatch EXCEPT
            !.players = << settle(@[1]), settle(@[2]) >>,
            !.pickups = << [NewPickup(<< "pickup", DT >>, at.x, at.y,
                                      "HEALTH", 0)
                              EXCEPT !.time = 3600] >>,
            !.pickupSpawnTimer = 4810,
            !.hazards = [@ EXCEPT !.spawnTimer = 1200, !.gameTime = 1200,
                                  !.showerTimer = 1200],
            !.matchTimer = MATCH_TIME - 1200, !.gameTime = 1200 ]

\* Both players have fired: a sniper round of the peer is about to reach
\* the wounded host, a pellet of the host the peer.
DuelMatch ==
    [ SettledMatch EXCEPT
        !.players[1] = [@ EXCEPT !.health = 15, !.shotsFired = 1,
                                 !.shootCooldown = 40,
                                 !.shootCooldownMax = 210],
        !.players[2] = [@ EXCEPT !.health = 80, !.shotsFired = 1,
                                 !.kills = 9, !.currentWeapon = "SNIPER",
                                 !.shootCooldown = 510,
                                 !.shootCooldownMax = 600],
        !.projectiles =
            << [NewProjectile(1900, -1440, -21570, -4310, PeerId)
                  EXCEPT !.damage = 70, !.radius = 40, !.lifetime = 1200,
                         !.age = 90],
               [NewProjectile(4800, -800, 12000, 0, HostId)
                  EXCEPT !.damage = 15, !.radius = 20, !.lifetime = 900,
                         !.age = 170] >> ]

\* The peer was killed by the host three seconds ago and is about to
\* respawn; its last input is still buffered.
DeadMatch ==
    [ SettledMatch EXCEPT
        !.players[1] = [@ EXCEPT !.kills = 1, !.shotsFired = 2,
                                 !.shotsHit = 7, !.damageDealt = 105],
        !.players[2] = [@ EXCEPT !.health = 0, !.alive = FALSE,
                                 !.deaths = 1, !.respawnTimer = DT],
        !.inputBuffer = Def(Input(100, TRUE, Def(Vec2(1500, -1420)))) ]

\* The host has walked over to the lava core and has one health point left.
LavaMatch ==
    [ SettledMatch EXCEPT
        !.players[1] = [Spawn(@, Planets[1], -HALF_PI)
                           EXCEPT !.health = 1, !.invulnerable = 0] ]

\* The peer jumped a while ago and is drifting out of the map.
VoidMatch ==
    [ SettledMatch EXCEPT
        !.players[2] = [@ EXCEPT !.x = 0, !.y = -19990, !.vx = 0,
                                 !.vy = -3000, !.isGrounded = FALSE,
                                 !.surfaceAngle = -HALF_PI,
                                 !.jumpGraceTimer = Def(JUMP_GRACE)] ]

\* A meteorite is about to fall on the wounded host, and the next one is
\* due.
MeteorMatch ==
    [ SettledMatch EXCEPT
        !.players[1] = [@ EXCEPT !.health = 40],
        !.meteorites = << [NewMeteorite(1500, -1700, 0, 1500, 150, 0, 0)
                             EXCEPT !.age = 3000] >>,
        !.hazards = [@ EXCEPT !.spawnTimer = DT] ]

Scenarios ==
    { StartMatch, SettledMatch, DuelMatch, DeadMatch, LavaMatch, VoidMatch,
      MeteorMatch }

\* The inputs the local InputManager is sampled with, and the inputs the
\* peer sends.
LocalInputs ==
    { NoInput,
      Input(100, FALSE, Undefined),
      Input(0, TRUE, Undefined),
      Input(0, FALSE, Def(Vec2(5000, -720))) }

RemoteInputs ==
    { Input(-100, TRUE, Undefined),
      Input(0, FALSE, Def(Vec2(1500, -1420))) }

\* Outcomes of the Math.random() draws
NoJitter == [angle |-> 0, speed |-> 0]
Jitters == { NoJitter, [angle |-> 25, speed |-> -250] }
SpawnAngles == { -HALF_PI, 0 }
PickupSpawns ==
    { [planet |-> 2, angle |-> -HALF_PI, typeKey |-> "HEALTH", time |-> 0],
      [planet |-> 3, angle |-> 0, typeKey |-> "SNIPER", time |-> 0],
      [planet |-> 1, angle |-> PI, typeKey |-> "MACHINE_GUN", time |-> 0] }
MeteorSpawns ==
    { [angle |-> 0, aim |-> 0, speed |-> 1000, radius |-> 100,
       rotation |-> 0, rotationSpeed |-> 0],
      [angle |-> HALF_PI, aim |-> 400, speed |-> 2500, radius |-> 250,
       rotation |-> PI, rotationSpeed |-> -20000] }
NoMeteor == CHOOSE r \in MeteorSpawns : r.angle = 0

NoCall == [op |-> "none"]

\* The clock of the game loop, in 1/6000 s.  In double precision 0.1 is a
\* hair (2^-57) more than six times 1/60; on the model's grain the hair is
\* a hundredth of a step.
FIXED_DT == 100             \* this.fixedDt = 1 / 60
MAX_ACCUMULATOR == 601      \* this.maxAccumulator = 0.1

\* new GameLoop(...), then start(): the loop runs from the construction of
\* the Game on
NewGameLoop == [ lastTime |-> 0, accumulator |-> 0, running |-> TRUE ]

\* new InputManager(canvas): no jump key or button is down
NewInputManager == [ jumpHeld |-> FALSE, jumpOneShot |-> FALSE ]

vars ==
    << players, projectiles, meteorites, pickups, pickupSpawnTimer, hazards,
       inputBuffer, matchTimer, gameTime, state, events, sent, pc, ci, ticks,
       lastCall, peerPlayerMap, connections, clientState, now, frameInput, lobbyPlayers,
                    channels, loop, inputManager >>

netVars == << peerPlayerMap, connections, clientState, now, frameInput, lobbyPlayers,
                    channels, loop, inputManager >>

\* An entry of Game.lobbyPlayers: the host's has no peerId
LobbyEntry(index, peerId) == [index |-> index, peerId |-> peerId]

\* onPlayerLeave: this.lobbyPlayers.filter(p => p.peerId !== peerId)
RECURSIVE LobbyWithout(_, _)
LobbyWithout(lobby, peerId) ==
    IF lobby = << >> THEN << >>
    ELSE IF lobby[1].peerId = Def(peerId)
         THEN LobbyWithout(Tail(lobby), peerId)
         ELSE << lobby[1] >> \o LobbyWithout(Tail(lobby), peerId)

\* Game._hostGame with one peer joined (onPlayerJoin, lines 153-165): the
\* peer drives player 1 of the array, and the host has no ClientState.
HostNet ==
    /\ peerPlayerMap = [p \in {PeerId} |-> 1]
    /\ connections = {PeerId}
    /\ clientState = Undefined
    /\ now = 0
    /\ frameInput = Undefined
    /\ lobbyPlayers = << LobbyEntry(0, Undefined), LobbyEntry(1, Def(PeerId)) >>
    /\ channels = [p \in {PeerId} |-> "open"]
    /\ loop = NewGameLoop
    /\ inputManager = NewInputManager

Init ==
    \E m \in Scenarios :
        /\ players = m.players
        /\ projectiles = m.projectiles
        /\ meteorites = m.meteorites
        /\ pickups = m.pickups
        /\ pickupSpawnTimer = m.pickupSpawnTimer
        /\ hazards = m.hazards
        /\ inputBuffer = m.inputBuffer
        /\ matchTimer = m.matchTimer
        /\ gameTime = m.gameTime
        /\ state = "PLAYING"
        /\ events = << >>
        /\ sent = << >>
        /\ pc = "input"
        /\ ci = 0
        /\ ticks = 0
        /\ lastCall = NoCall
        /\ HostNet

\* The time of the last jump of each player, as the tick record keeps it
JumpedAt(k) ==
    IF lastCall.op \in {"tick", "input"} THEN lastCall.jumpedAt[k]
    ELSE Undefined

\* A slot that keeps the first input it was given
KeepFirstInput(buffer, input) == IF IsDef(buffer) THEN buffer ELSE Def(input)

\* getInput answering a default input, with a jump, for a peer that has no
\* input buffered
GetInputOrDefault(buffer) ==
    IF IsDef(buffer) THEN buffer ELSE Def(Input(0, TRUE, Undefined))

\* this.inputBuffer.set(peerId, data.input): the slot of the peer holds the
\* input received
SetInput(buffer, input) == Def(input)

\* HostState.getInput: this.inputBuffer.get(peerId) || null
GetInput(buffer) == buffer

\* HostState's onData handler for an input message of the peer; it runs
\* between two ticks, while the peer's connection is open.
ReceiveInput ==
    /\ pc = "input"
    /\ state = "PLAYING"
    /\ PeerId \in connections
    /\ \E input \in RemoteInputs :
         /\ inputBuffer' = SetInput(inputBuffer, input)
         /\ lastCall' = [ op |-> "input", input |-> input,
                          jumpedAt |-> << JumpedAt(1), JumpedAt(2) >> ]
    /\ UNCHANGED << players, projectiles, meteorites, pickups,
                    pickupSpawnTimer, hazards, matchTimer, gameTime, state,
                    events, sent, pc, ci, ticks >>
    /\ UNCHANGED netVars

\* _updateHost, lines 374-376: the input of the peer this tick applies, none
\* when the peer has no entry in peerPlayerMap or no input buffered
RemoteInput ==
    IF PeerId \in DOMAIN peerPlayerMap THEN GetInput(inputBuffer)
    ELSE Undefined

\* _updateHost, lines 364-379: clocks, then the local and the remote input.
\* The local input is one of `inputs'; at most `bound' ticks are taken.
TickWith(inputs, bound) ==
    /\ pc = "input"
    /\ state = "PLAYING"
    /\ ticks < bound
    /\ \E localInput \in inputs :
       \E j1 \in IF players[1].alive /\ IsDef(localInput.shootTarget)
                 THEN Jitters ELSE {NoJitter} :
       \E j2 \in IF players[2].alive /\ IsDef(RemoteInput)
                    /\ IsDef(Val(RemoteInput).shootTarget)
                 THEN Jitters ELSE {NoJitter} :
       \E r1 \in { ProcessInput(players[1], localInput, j1) } :
       \E r2 \in { IF IsDef(RemoteInput)
                   THEN ProcessInput(players[2], Val(RemoteInput), j2)
                   ELSE [player |-> players[2], projectiles |-> << >>,
                         fired |-> Undefined, jumped |-> FALSE] } :
         /\ players' = << r1.player, r2.player >>
         /\ projectiles' = projectiles \o r1.projectiles \o r2.projectiles
         /\ lastCall' = [ op |-> "tick", buffered |-> GetInput(inputBuffer),
                          applied |-> RemoteInput,
                          jumpedAt |->
                            << IF r1.jumped THEN Def(gameTime + DT)
                               ELSE JumpedAt(1),
                               IF r2.jumped THEN Def(gameTime + DT)
                               ELSE JumpedAt(2) >> ]
    /\ gameTime' = gameTime + DT
    /\ matchTimer' = matchTimer - DT
    /\ events' = << >>
    /\ sent' = << >>
    /\ pc' = "gravity"
    /\ UNCHANGED << meteorites, pickups, pickupSpawnTimer, hazards,
                    inputBuffer, state, ci, ticks >>

\* The first step of a tick whose local input is given: the network, the
\* loop and the input manager are left alone.
TickInput(inputs, bound) ==
    /\ TickWith(inputs, bound)
    /\ UNCHANGED netVars

HostInput == TickInput(LocalInputs, MaxTicks)

\* The Math.random() < dt * 5 draw of a grounded player matters on lava
\* (burn) and, below full health, on forest (heal).
DrawMatters(p, theme) ==
    /\ p.alive
    /\ p.isGrounded \/ (CanLand(p) /\ NearestPlanet(p.x, p.y).distance
                                         <= SURFACE_THRESHOLD)
    /\ Planets[NearestPlanet(p.x, p.y).planet].themeKey = theme

\* _updateHost, line 382: gravity.update on the players that are alive.
HostGravity ==
    /\ pc = "gravity"
    /\ \E b1 \in IF DrawMatters(players[1], "lava") THEN BOOLEAN ELSE {FALSE} :
       \E b2 \in IF DrawMatters(players[2], "lava") THEN BOOLEAN ELSE {FALSE} :
       \E h1 \in IF DrawMatters(players[1], "forest") THEN BOOLEAN ELSE {FALSE} :
       \E h2 \in IF DrawMatters(players[2], "forest") THEN BOOLEAN ELSE {FALSE} :
         players' = << GravityUpdate(players[1], b1, h1),
                       GravityUpdate(players[2], b2, h2) >>
    /\ pc' = "timers"
    /\ UNCHANGED << projectiles, meteorites, pickups, pickupSpawnTimer,
                    hazards, inputBuffer, matchTimer, gameTime, state,
                    events, sent, ci, ticks, lastCall >>
    /\ UNCHANGED netVars

\* _updateHost, lines 385-387: updateTimers on every player.
HostTimers ==
    /\ pc = "timers"
    /\ players' = [k \in 1..Len(players) |-> UpdateTimers(players[k])]
    /\ pc' = "entities"
    /\ UNCHANGED << projectiles, meteorites, pickups, pickupSpawnTimer,
                    hazards, inputBuffer, matchTimer, gameTime, state,
                    events, sent, ci, ticks, lastCall >>
    /\ UNCHANGED netVars

\* _updateHost, lines 390-402, for one projectile
ProjectileTick(q) ==
    IF ~q.active THEN q
    ELSE With(TotalAccel(q.x, q.y, 1), LAMBDA accel :
              ProjectileUpdate([q EXCEPT !.vx = @ + TimesDt(accel.x),
                                         !.vy = @ + TimesDt(accel.y)]))

\* _updateHost, lines 405-417, for one meteorite
MeteoriteTick(m) ==
    IF ~m.active THEN m
    ELSE With(TotalAccel(m.x, m.y, 1), LAMBDA accel :
              MeteoriteUpdate([m EXCEPT !.vx = @ + RDiv(accel.x, 120),
                                        !.vy = @ + RDiv(accel.y, 120)]))

\* _updateHost, lines 390-417: projectiles and meteorites move.
HostEntities ==
    /\ pc = "entities"
    /\ projectiles' = [k \in 1..Len(projectiles) |-> ProjectileTick(projectiles[k])]
    /\ meteorites' = [k \in 1..Len(meteorites) |-> MeteoriteTick(meteorites[k])]
    /\ pc' = "pickups"
    /\ UNCHANGED << players, pickups, pickupSpawnTimer, hazards, inputBuffer,
                    matchTimer, gameTime, state, events, sent, ci, ticks,
                    lastCall >>
    /\ UNCHANGED netVars

\* A broadcast that sends the first event of the list only
EventMessagesFirst(evs) ==
    IF evs = << >> THEN << >>
    ELSE << [type |-> "event", event |-> evs[1]] >>

\* broadcastEvent of each event of a list
EventMessages(evs) ==
    [k \in 1..Len(evs) |-> [type |-> "event", event |-> evs[k]]]

\* _updateHost, lines 420-458: pickups bob, one may spawn, players collect
\* the ones they touch, collected ones are removed.
HostPickups ==
    /\ pc = "pickups"
    /\ pickupSpawnTimer' = IF pickupSpawnTimer - DT <= 0 THEN PICKUP_INTERVAL
                           ELSE pickupSpawnTimer - DT
    /\ \E bobbed \in { [k \in 1..Len(pickups) |-> PickupUpdate(pickups[k])] } :
       \E spawns \in { pickupSpawnTimer - DT <= 0
                       /\ Len(ActiveOnly(bobbed)) < MAX_PICKUPS } :
       \E r \in IF spawns THEN PickupSpawns
                ELSE { CHOOSE r \in PickupSpawns : r.planet = 2 } :
       \E at \in { PickupSpawnPoint(Planets[r.planet], r.angle) } :
       \E c \in { PickupCollisions(
                     [ players |-> players,
                       pickups |-> IF spawns
                                   THEN Append(bobbed,
                                            NewPickup(<< "pickup", gameTime >>,
                                                      at.x, at.y, r.typeKey,
                                                      r.time))
                                   ELSE bobbed,
                       events |-> << >> ], 1, 1) } :
         /\ players' = c.players
         /\ pickups' = ActiveOnly(c.pickups)
         /\ sent' = sent \o EventMessages(c.events)
    /\ pc' = "hazards"
    /\ UNCHANGED << projectiles, meteorites, hazards, inputBuffer, matchTimer,
                    gameTime, state, events, ci, ticks, lastCall >>
    /\ UNCHANGED netVars

\* _updateHost, line 461: hazards.update.
HostHazards ==
    /\ pc = "hazards"
    /\ \E r \in IF hazards.spawnTimer - DT <= 0 THEN MeteorSpawns
                ELSE {NoMeteor} :
       \E u \in { HazardUpdate(hazards, meteorites, r) } :
         /\ hazards' = u.hazards
         /\ meteorites' = u.meteorites
    /\ pc' = "collision"
    /\ UNCHANGED << players, projectiles, pickups, pickupSpawnTimer,
                    inputBuffer, matchTimer, gameTime, state, events, sent,
                    ci, ticks, lastCall >>
    /\ UNCHANGED netVars

\* _updateHost, lines 464-473: collision.update, then every event returned
\* is handled (which changes nothing the model keeps) and broadcast.
HostCollision ==
    /\ pc = "collision"
    /\ \E c \in { CollisionUpdate(players, projectiles, meteorites) } :
         /\ players' = c.players
         /\ projectiles' = c.projectiles
         /\ meteorites' = c.meteorites
         /\ events' = c.events
         /\ sent' = sent \o EventMessages(c.events)
    /\ pc' = "respawn"
    /\ UNCHANGED << pickups, pickupSpawnTimer, hazards, inputBuffer,
                    matchTimer, gameTime, state, ci, ticks, lastCall >>
    /\ UNCHANGED netVars

\* _updateHost, lines 478-484, for one player: the void check
VoidCheck(p) ==
    IF p.alive /\ Length(p.x, p.y) > VOID_RADIUS
    THEN TakeDamage(p, 9999).player
    ELSE p

\* A respawn that does not wait for the respawn timer
RespawnAtOnce(p, angle) ==
    IF ~p.alive
    THEN Spawn(p, Planets[2 + (p.index % (Len(Planets) - 1))], angle)
    ELSE p

\* _updateHost, lines 486-490, for one player; angle is the random angle
Respawn(p, angle) ==
    IF ~p.alive /\ p.respawnTimer <= 0
    THEN Spawn(p, Planets[2 + (p.index % (Len(Planets) - 1))], angle)
    ELSE p

\* _updateHost, lines 476-491: the void check and the respawn of every
\* player.
HostRespawn ==
    /\ pc = "respawn"
    /\ \E a1 \in IF ~players[1].alive /\ players[1].respawnTimer <= 0
                 THEN SpawnAngles ELSE {0} :
       \E a2 \in IF ~players[2].alive /\ players[2].respawnTimer <= 0
                 THEN SpawnAngles ELSE {0} :
         players' = << Respawn(VoidCheck(players[1]), a1),
                       Respawn(VoidCheck(players[2]), a2) >>
    /\ pc' = "finish"
    /\ UNCHANGED << projectiles, meteorites, pickups, pickupSpawnTimer,
                    hazards, inputBuffer, matchTimer, gameTime, state,
                    events, sent, ci, ticks, lastCall >>
    /\ UNCHANGED netVars

\* A win check that looks at the kill counts only
MatchOverByKills(ps, timer) ==
    \E k \in 1..Len(ps) : ps[k].kills >= KILL_TARGET

\* Game._checkWinConditions: whether the match ends
MatchOver(ps, timer) ==
    \/ \E k \in 1..Len(ps) : ps[k].kills >= KILL_TARGET
    \/ timer <= 0

\* Game._endMatch: the rankings broadcast
Rankings(ps) ==
    [k \in 1..Len(ps) |->
        [ kills |-> ps[k].kills, deaths |-> ps[k].deaths,
          shotsFired |-> ps[k].shotsFired, shotsHit |-> ps[k].shotsHit,
          damageDealt |-> ps[k].damageDealt ]]

\* _updateHost, lines 515-518: the state is broadcast, then the win
\* conditions are checked.
HostFinish ==
    /\ pc = "finish"
    /\ LET stateMsg == [type |-> "state",
                        state |-> SerializeGameState(players, projectiles,
                                                     meteorites, matchTimer,
                                                     gameTime)]
       IN  IF MatchOver(players, matchTimer)
           THEN /\ state' = "RANKING"
                /\ sent' = sent \o << stateMsg,
                                      [type |-> "end",
                                       rankings |-> Rankings(players)] >>
           ELSE /\ state' = state
                /\ sent' = Append(sent, stateMsg)
    /\ pc' = "input"
    /\ ticks' = ticks + 1
    /\ UNCHANGED << players, projectiles, meteorites, pickups,
                    pickupSpawnTimer, hazards, inputBuffer, matchTimer,
                    gameTime, events, ci, lastCall >>
    /\ UNCHANGED netVars

Next ==
    \/ ReceiveInput
    \/ HostInput
    \/ HostGravity
    \/ HostTimers
    \/ HostEntities
    \/ HostPickups
    \/ HostHazards
    \/ HostCollision
    \/ HostRespawn
    \/ HostFinish

Spec == Init /\ [][Next]_vars

-----------------------------------------------------------------------------
(* The jump window: a match in which the host only jumps                    *)

\* Ticks explored after the start of a jump run: 0.35 s is 21 ticks
JumpTicks == 23

\* The host stands on the ice core at the point that faces the lava core,
\* 20 units away: a jump takes it within the surface threshold of the lava
\* core at once, and inside it a few ticks later.
GapMatch ==
    [ SettledMatch EXCEPT
        !.players[1] = [Spawn(@, Planets[2], PI) EXCEPT !.invulnerable = 0] ]

JumpInputs == { NoInput, Input(0, TRUE, Undefined) }

InitJump ==
    \E m \in { GapMatch, SettledMatch } :
        /\ players = m.players
        /\ projectiles = m.projectiles
        /\ meteorites = m.meteorites
        /\ pickups = m.pickups
        /\ pickupSpawnTimer = m.pickupSpawnTimer
        /\ hazards = m.hazards
        /\ inputBuffer = m.inputBuffer
        /\ matchTimer = m.matchTimer
        /\ gameTime = m.gameTime
        /\ state = "PLAYING"
        /\ events = << >>
        /\ sent = << >>
        /\ pc = "input"
        /\ ci = 0
        /\ ticks = 0
        /\ lastCall = NoCall
        /\ HostNet

JumpInput == TickInput(JumpInputs, JumpTicks)

NextJump ==
    \/ JumpInput
    \/ HostGravity
    \/ HostTimers
    \/ HostEntities
    \/ HostPickups
    \/ HostHazards
    \/ HostCollision
    \/ HostRespawn
    \/ HostFinish

SpecJump == InitJump /\ [][NextJump]_vars

-----------------------------------------------------------------------------
(* The operations on one player, applied one at a time                     *)

\* Operations applied from each initial player
MaxOps == 2

\* The host of SettledMatch, and what a match can have made of it.
OpReady == SettledMatch.players[1]

OpAirborne(q) ==
    [q EXCEPT !.x = 1500, !.y = -1900, !.vx = 300, !.vy = -2000,
              !.isGrounded = FALSE, !.moveX = 100,
              !.jumpGraceTimer = Def(JUMP_GRACE)]

OpDead(q) ==
    [q EXCEPT !.health = 0, !.alive = FALSE, !.deaths = 1,
              !.respawnTimer = DT, !.damageFlash = 60]

OpOnLava(q) == [Spawn(q, Planets[1], -HALF_PI) EXCEPT !.health = 1]

OpStates(ready) ==
    { ready,
      [ready EXCEPT !.shootCooldown = 40, !.shotsFired = 1, !.health = 60],
      StartMatch.players[1],
      OpAirborne(ready),
      OpDead(OpAirborne(ready)),
      OpDead([ready EXCEPT !.moveX = -100, !.vx = 500]),
      OpDead([OpOnLava(ready) EXCEPT !.shootCooldown = 40,
                                     !.respawnTimer = 600]),
      OpOnLava(ready),
      [OpOnLava(ready) EXCEPT !.invulnerable = 0],
      [OpAirborne(ready) EXCEPT !.x = 0, !.y = -20100, !.invulnerable = 0],
      [OpAirborne(ready) EXCEPT !.x = 0, !.y = -20100,
                                !.invulnerable = 300] }

OpPlayers == OpStates(OpReady)

\* takeDamage amounts: a lava burn, a pellet, a meteorite, the void
Damages == { 1, 15, 50, 9999 }

OpInputs ==
    { Input(100, FALSE, Undefined),
      Input(-100, TRUE, Undefined),
      Input(0, TRUE, Def(Vec2(5000, -720))) }

InitOps ==
    /\ \E q \in OpPlayers : players = << q >>
    /\ projectiles = << >>
    /\ meteorites = << >>
    /\ pickups = << >>
    /\ pickupSpawnTimer = PICKUP_INTERVAL
    /\ hazards = HazardReset(NewHazards)
    /\ inputBuffer = Undefined
    /\ matchTimer = MATCH_TIME
    /\ gameTime = 0
    /\ state = "PLAYING"
    /\ events = << >>
    /\ sent = << >>
    /\ pc = "op"
    /\ ci = 0
    /\ ticks = 0
    /\ lastCall = NoCall
    /\ HostNet

\* What every operation below leaves alone
OpFrame ==
    /\ ticks < MaxOps
    /\ ticks' = ticks + 1
    /\ UNCHANGED << pickups, pickupSpawnTimer, hazards, inputBuffer,
                    matchTimer, gameTime, state, sent, pc, ci >>
    /\ UNCHANGED netVars

\* player.takeDamage(amount)
DoTakeDamage ==
    /\ OpFrame
    /\ \E amount \in Damages :
       \E r \in { TakeDamage(players[1], amount) } :
         /\ players' = << r.player >>
         /\ lastCall' = [op |-> "takeDamage", amount |-> amount,
                         returned |-> r.died]
    /\ UNCHANGED << projectiles, meteorites, events >>

\* weapons.fire(player, targetX, targetY, particles)
DoFire ==
    /\ OpFrame
    /\ \E target \in { Vec2(5000, -720), Vec2(-1500, 0) } :
       \E jitter \in IF CanShoot(players[1]) THEN Jitters ELSE {NoJitter} :
       \E r \in { Fire(players[1], target.x, target.y, jitter) } :
         /\ players' = << r.player >>
         /\ projectiles' = projectiles \o r.projectiles
         /\ lastCall' = [op |-> "fire", target |-> target,
                         returned |-> r.projectiles,
                         muzzleFlash |-> r.muzzleFlash]
    /\ UNCHANGED << meteorites, events >>

\* _processInput(player, input, dt)
DoProcessInput ==
    /\ OpFrame
    /\ \E input \in OpInputs :
       \E r \in { ProcessInput(players[1], input, NoJitter) } :
         /\ players' = << r.player >>
         /\ projectiles' = projectiles \o r.projectiles
         /\ lastCall' = [op |-> "processInput", fired |-> r.fired,
                         jumped |-> r.jumped]
    /\ UNCHANGED << meteorites, events >>

\* gravity.update([player], planets, dt)
DoGravityUpdate ==
    /\ OpFrame
    /\ \E burn \in IF DrawMatters(players[1], "lava") THEN BOOLEAN
                    ELSE {FALSE} :
         players' = << GravityUpdate(players[1], burn, FALSE) >>
    /\ lastCall' = [op |-> "gravityUpdate"]
    /\ UNCHANGED << projectiles, meteorites, events >>

\* player.updateTimers(dt)
DoUpdateTimers ==
    /\ OpFrame
    /\ players' = << UpdateTimers(players[1]) >>
    /\ lastCall' = [op |-> "updateTimers"]
    /\ UNCHANGED << projectiles, meteorites, events >>

\* collision.update with a pellet of another player and a meteorite on the
\* player
DoCollision ==
    /\ OpFrame
    /\ \E c \in { CollisionUpdate(
                      players,
                      Append(projectiles,
                             [NewProjectile(players[1].x, players[1].y,
                                            0, 0, PeerId)
                                EXCEPT !.damage = 15, !.radius = 20]),
                      << NewMeteorite(players[1].x, players[1].y - 200,
                                      0, 1500, 150, 0, 0) >>) } :
         /\ players' = c.players
         /\ projectiles' = c.projectiles
         /\ meteorites' = c.meteorites
         /\ events' = c.events
    /\ lastCall' = [op |-> "collisionUpdate"]

\* The void check and the respawn of _updateHost
DoRespawn ==
    /\ OpFrame
    /\ \E a \in IF ~players[1].alive /\ players[1].respawnTimer <= 0
                 THEN SpawnAngles ELSE {0} :
         players' = << Respawn(VoidCheck(players[1]), a) >>
    /\ lastCall' = [op |-> "respawn"]
    /\ UNCHANGED << projectiles, meteorites, events >>

NextOps ==
    \/ DoTakeDamage
    \/ DoFire
    \/ DoProcessInput
    \/ DoGravityUpdate
    \/ DoUpdateTimers
    \/ DoCollision
    \/ DoRespawn

SpecOps == InitOps /\ [][NextOps]_vars

-----------------------------------------------------------------------------
(* CollisionSystem.update, step by step, on a crowd                        *)

Peer2Id == "peer2"

\* Game._hostGame with two peers joined
CrowdNet ==
    /\ peerPlayerMap = [p \in {PeerId, Peer2Id} |->
                            IF p = PeerId THEN 1 ELSE 2]
    /\ connections = {PeerId, Peer2Id}
    /\ clientState = Undefined
    /\ now = 0
    /\ frameInput = Undefined
    /\ lobbyPlayers = << LobbyEntry(0, Undefined), LobbyEntry(1, Def(PeerId)),
                          LobbyEntry(2, Def(Peer2Id)) >>
    /\ channels = [p \in {PeerId, Peer2Id} |-> "open"]
    /\ loop = NewGameLoop
    /\ inputManager = NewInputManager

\* Three players two seconds into a match.  The two peers have walked over
\* to the host, so that the three stand on the same spot of the ice core.
Crowd ==
    With(SettledMatch.players, LAMBDA ps :
        << ps[1],
           [ps[2] EXCEPT !.x = ps[1].x, !.y = ps[1].y,
                         !.surfaceAngle = ps[1].surfaceAngle],
           [StartPlayer(Peer2Id, 2) EXCEPT
               !.x = ps[1].x, !.y = ps[1].y,
               !.surfaceAngle = ps[1].surfaceAngle, !.invulnerable = 0] >>)

\* What a match can have made of the crowd
Crowds ==
    { Crowd,
      [Crowd EXCEPT ![2].health = 10, ![3].health = 70, ![1].kills = 9],
      [Crowd EXCEPT ![1].invulnerable = 300, ![2].health = 15],
      [Crowd EXCEPT ![2] = [@ EXCEPT !.health = 0, !.alive = FALSE,
                                     !.deaths = 1, !.respawnTimer = 900],
                    ![1].health = 50],
      [Crowd EXCEPT ![3] = Spawn(@, Planets[4], -HALF_PI),
                    ![1].health = 60],
      [Crowd EXCEPT ![1] = [@ EXCEPT !.x = 1500, !.y = -1900,
                                     !.isGrounded = FALSE, !.vy = -2000,
                                     !.jumpGraceTimer = Def(JUMP_GRACE)],
                    ![2].health = 15] }

\* A projectile in flight: a shotgun pellet or a sniper round of one of
\* the three, on the crowd or off it
Shots ==
    { [NewProjectile(at.x, at.y, 12000, 0, o)
         EXCEPT !.damage = w.damage, !.radius = w.radius,
                !.lifetime = w.lifetime, !.age = 100] :
        at \in { Vec2(1500, -1420), Vec2(1500, -1900), Vec2(3300, -1900) },
        o \in { HostId, PeerId, Peer2Id },
        w \in { WeaponProfile("SHOTGUN"), WeaponProfile("SNIPER") } }

\* A meteorite falling on the crowd
Falling == [NewMeteorite(1500, -1700, 0, 1500, 150, 0, 0) EXCEPT !.age = 3000]

InitCollision ==
    /\ players \in Crowds
    /\ \E q1 \in Shots :
       \E q2 \in { q \in Shots : q.damage = 70 /\ q.y = -1420 } :
         projectiles \in { << q1 >>, << q1, q2 >> }
    /\ meteorites \in { << >>, << Falling >> }
    /\ pickups = << >>
    /\ pickupSpawnTimer = PICKUP_INTERVAL
    /\ hazards = HazardReset(NewHazards)
    /\ inputBuffer = Undefined
    /\ matchTimer = MATCH_TIME - 1200
    /\ gameTime = 1200
    /\ state = "PLAYING"
    /\ events = << >>
    /\ sent = << >>
    /\ pc = "projectiles"
    /\ ci = Len(projectiles)
    /\ ticks = 0
    /\ lastCall = NoCall
    /\ CrowdNet

\* What the steps of the update leave alone
CollisionFrame ==
    /\ UNCHANGED << pickups, pickupSpawnTimer, hazards, inputBuffer, matchTimer,
                    gameTime, state, sent, ticks >>
    /\ UNCHANGED netVars

\* Lines 15-65, one iteration of the outer loop: projectile ci against the
\* players.
ProjectileStep ==
    /\ pc = "projectiles"
    /\ ci >= 1
    /\ \E c \in { ProjectileVsPlayers(
                      [ players |-> players, projectiles |-> projectiles,
                        meteorites |-> meteorites, events |-> events ],
                      ci) } :
         /\ players' = c.players
         /\ projectiles' = c.projectiles
         /\ events' = c.events
    /\ ci' = ci - 1
    /\ pc' = IF ci = 1 THEN "planets" ELSE pc
    /\ lastCall' = [op |-> "projectile", index |-> ci]
    /\ UNCHANGED meteorites
    /\ CollisionFrame

\* Lines 68-84: projectiles against planets.
ProjectilePlanets ==
    /\ pc = "planets"
    /\ \E c \in { ProjectilePlanetLoop(
                      [ players |-> players, projectiles |-> projectiles,
                        meteorites |-> meteorites, events |-> events ]) } :
         projectiles' = c.projectiles
    /\ pc' = "meteorites"
    /\ lastCall' = [op |-> "planets"]
    /\ UNCHANGED << players, meteorites, events, ci >>
    /\ CollisionFrame

\* Lines 87-131: meteorites against players, then against planets.
MeteoriteStep ==
    /\ pc = "meteorites"
    /\ \E c \in { MeteoritePlanetLoop(
                      MeteoritePlayerLoop(
                          [ players |-> players, projectiles |-> projectiles,
                            meteorites |-> meteorites, events |-> events ],
                          1, 1),
                      Len(meteorites)) } :
         /\ players' = c.players
         /\ meteorites' = c.meteorites
         /\ events' = c.events
    /\ pc' = "cleanup"
    /\ lastCall' = [op |-> "meteorites"]
    /\ UNCHANGED << projectiles, ci >>
    /\ CollisionFrame

\* Lines 134-141: inactive entities are removed and the events returned.
CleanUpStep ==
    /\ pc = "cleanup"
    /\ \E c \in { CleanUp([ players |-> players,
                             projectiles |-> projectiles,
                             meteorites |-> meteorites,
                             events |-> events ]) } :
         /\ projectiles' = c.projectiles
         /\ meteorites' = c.meteorites
    /\ pc' = "done"
    /\ lastCall' = [op |-> "collisionUpdate", returned |-> events]
    /\ UNCHANGED << players, events, ci >>
    /\ CollisionFrame

NextCollision ==
    \/ ProjectileStep
    \/ ProjectilePlanets
    \/ MeteoriteStep
    \/ CleanUpStep

SpecCollision == InitCollision /\ [][NextCollision]_vars

-----------------------------------------------------------------------------
(* The start of a match, with lengths in hundredths of a unit              *)
(*                                                                         *)
(* generateMap places the planets of the rings at cos and sin of random    *)
(* angles, with random radii, and Player.serialize keeps one decimal of a  *)
(* position.  The definitions below follow _startGame and _initMatch on a  *)
(* grid ten times finer than the one of the match, on which the rounding   *)
(* to one decimal is visible: 140 units are 14000 here.                    *)

\* generateMap, lines 301-309: the planet i = 0 of the inner ring, for the
\* outcomes `angle' of Math.random() * 0.5 and `radius' of
\* 70 + Math.random() * 20
StartInner(angle, radius) ==
    Planet(RDiv(Cos(angle) * 50000, 10000), RDiv(Sin(angle) * 50000, 10000),
           radius, "forest")

\* generateMap: the binary core and the first planet of the inner ring, the
\* planets the players of a lobby of two are spawned on and next to
StartMap(angle, radius) ==
    << Planet(-15000, 0, 14000, "lava"),
       Planet(15000, 0, 14000, "ice"),
       StartInner(angle, radius) >>

\* Planet.getSurfacePoint
StartSurfacePoint(planet, angle) ==
    Vec2(planet.x + RDiv(Cos(angle) * (planet.radius + 200), 10000),
         planet.y + RDiv(Sin(angle) * (planet.radius + 200), 10000))

\* Math.round(v * 10) / 10
StartRound1(v) == 10 * RDiv(v, 10)

\* Player.serialize of a player that has just been spawned
StartSnapshot(p) ==
    [SerializePlayer(p) EXCEPT !.x = StartRound1(p.x), !.y = StartRound1(p.y)]

\* _startGame, lines 257-274, for lobby entry i: the player is created and
\* spawned on top of its planet, and serialized into the start data.
StartData(id, i, map) ==
    StartSnapshot(SpawnAt(NewPlayer(id, i),
                          StartSurfacePoint(map[i + 2], -HALF_PI), -HALF_PI))

\* Outcomes of the two Math.random() draws of the inner planet
MapAngles == { 0, 37, 123, 250, 333, 401, 455, 499 }
MapRadii == { 7000, 7013, 7555, 8001, 8250, 8499, 8996 }

InitStart ==
    /\ players = << >>
    /\ projectiles = << >>
    /\ meteorites = << >>
    /\ pickups = << >>
    /\ pickupSpawnTimer = 0
    /\ hazards = NewHazards
    /\ inputBuffer = Undefined
    /\ matchTimer = MATCH_TIME
    /\ gameTime = 0
    /\ state = "LOBBY"
    /\ events = << >>
    /\ sent = << >>
    /\ pc = "start"
    /\ ci = 0
    /\ ticks = 0
    /\ lastCall = NoCall
    /\ HostNet

\* Game._startGame on the host with a lobby of two: the start data are
\* broadcast, and _initMatch builds the players from them.
StartGame ==
    /\ state = "LOBBY"
    /\ \E angle \in MapAngles, radius \in MapRadii :
       \E map \in { StartMap(angle, radius) } :
       \E data \in { << StartData(HostId, 0, map),
                         StartData(PeerId, 1, map) >> } :
         /\ sent' = << [type |-> "start", players |-> data] >>
         /\ players' = [k \in 1..2 |-> PlayerFromSerialized(data[k])]
         /\ lastCall' = [op |-> "startGame", planets |-> map]
    /\ projectiles' = << >>
    /\ meteorites' = << >>
    /\ matchTimer' = MATCH_TIME
    /\ gameTime' = 0
    /\ hazards' = HazardReset(hazards)
    /\ state' = "COUNTDOWN"
    /\ UNCHANGED << pickups, pickupSpawnTimer, inputBuffer, events, pc, ci,
                    ticks >>
    /\ UNCHANGED netVars

\* Game.update in state COUNTDOWN, on the tick the countdown runs out.
CountdownEnds ==
    /\ state = "COUNTDOWN"
    /\ state' = "PLAYING"
    /\ UNCHANGED << players, projectiles, meteorites, pickups,
                    pickupSpawnTimer, hazards, inputBuffer, matchTimer,
                    gameTime, events, sent, pc, ci, ticks, lastCall >>
    /\ UNCHANGED netVars

NextStart ==
    \/ StartGame
    \/ CountdownEnds

SpecStart == InitStart /\ [][NextStart]_vars

-----------------------------------------------------------------------------
(* The peer's inputs over several ticks, and the peer's connection closing *)

\* Ticks explored in a match in which the peer may leave
PeerTicks == 2

\* The map of the peers with every peer kept
KeepPeer(map, peerId) == map

\* this.peerPlayerMap.delete(peerId)
DeletePeer(map, peerId) == [q \in DOMAIN map \ {peerId} |-> map[q]]

\* The `close' handlers of the peer's connection on the host
\* (_handleConnection and _setupDataHandlers both register one): the
\* connection is deleted and onPlayerLeave runs, which deletes the peer from
\* peerPlayerMap and broadcasts the lobby to the connections that are left,
\* here none.  The players array is not touched.
PeerLeaves ==
    /\ pc = "input"
    /\ PeerId \in connections
    /\ connections' = connections \ {PeerId}
    /\ peerPlayerMap' = DeletePeer(peerPlayerMap, PeerId)
    /\ lobbyPlayers' = LobbyWithout(lobbyPlayers, PeerId)
    /\ channels' = DeletePeer(channels, PeerId)
    /\ UNCHANGED << players, projectiles, meteorites, pickups,
                    pickupSpawnTimer, hazards, inputBuffer, matchTimer,
                    gameTime, state, events, sent, pc, ci, ticks, lastCall,
                    clientState, now, frameInput, loop, inputManager >>

InitPeer ==
    \E m \in { StartMatch, SettledMatch } :
        /\ players = m.players
        /\ projectiles = m.projectiles
        /\ meteorites = m.meteorites
        /\ pickups = m.pickups
        /\ pickupSpawnTimer = m.pickupSpawnTimer
        /\ hazards = m.hazards
        /\ inputBuffer = m.inputBuffer
        /\ matchTimer = m.matchTimer
        /\ gameTime = m.gameTime
        /\ state = "PLAYING"
        /\ events = << >>
        /\ sent = << >>
        /\ pc = "input"
        /\ ci = 0
        /\ ticks = 0
        /\ lastCall = NoCall
        /\ HostNet

PeerTick == TickInput({NoInput}, PeerTicks)

NextPeer ==
    \/ ReceiveInput
    \/ PeerLeaves
    \/ PeerTick
    \/ HostGravity
    \/ HostTimers
    \/ HostEntities
    \/ HostPickups
    \/ HostHazards
    \/ HostCollision
    \/ HostRespawn
    \/ HostFinish

SpecPeer == InitPeer /\ [][NextPeer]_vars

-----------------------------------------------------------------------------
(* The client: ClientState (part_000, rewritten revision) and the Game of  *)
(* a client (main.js).  Timestamps are in milliseconds, as                 *)
(* performance.now() gives them.                                           *)

INTERP_DELAY == 100         \* this._interpDelay = 100
BUFFER_SIZE == 10           \* if (this._stateBuffer.length > 10)
SEND_RATE == 20             \* this.sendRate = 1 / 30

\* The push without the shift of line 566
PushStateUnbounded(buffer, message, t) ==
    Append(buffer, [state |-> message, timestamp |-> t])

\* The `state' case of onData, lines 559-567: the snapshot is pushed with
\* the time of its receipt, and the oldest entry is shifted out when the
\* buffer holds more than ten.
PushState(buffer, message, t) ==
    With(Append(buffer, [state |-> message, timestamp |-> t]),
         LAMBDA b : IF Len(b) > BUFFER_SIZE THEN Tail(b) ELSE b)

\* Physics.lerp(a, b, t) for t = num / den
Lerp(a, b, num, den) == a + RDiv((b - a) * num, den)

\* The two while loops of Physics.lerpAngle: diff brought into [-pi, pi]
RECURSIVE WrapDiff(_)
WrapDiff(diff) ==
    IF diff > PI THEN WrapDiff(diff - TWO_PI)
    ELSE IF diff < -PI THEN WrapDiff(diff + TWO_PI)
    ELSE diff

\* lerpAngle without the two loops
LerpAngleLong(a, b, num, den) == a + RDiv((b - a) * num, den)

\* Physics.lerpAngle(a, b, t) for t = num / den
LerpAngle(a, b, num, den) == a + RDiv(WrapDiff(b - a) * num, den)

\* The search that settles for the last pair when no pair brackets
\* renderTime
BracketIndexLast(buffer, renderTime) ==
    IF \E i \in 1..(Len(buffer) - 1) :
           /\ buffer[i].timestamp <= renderTime
           /\ buffer[i + 1].timestamp >= renderTime
    THEN CHOOSE i \in 1..(Len(buffer) - 1) :
           /\ buffer[i].timestamp <= renderTime
           /\ buffer[i + 1].timestamp >= renderTime
           /\ \A j \in 1..(i - 1) :
                 ~(/\ buffer[j].timestamp <= renderTime
                   /\ buffer[j + 1].timestamp >= renderTime)
    ELSE Len(buffer) - 1

\* The loop of lines 631-638: the index of the first entry that brackets
\* renderTime with its successor, 0 when there is none.
BracketIndex(buffer, renderTime) ==
    IF \E i \in 1..(Len(buffer) - 1) :
           /\ buffer[i].timestamp <= renderTime
           /\ buffer[i + 1].timestamp >= renderTime
    THEN CHOOSE i \in 1..(Len(buffer) - 1) :
           /\ buffer[i].timestamp <= renderTime
           /\ buffer[i + 1].timestamp >= renderTime
           /\ \A j \in 1..(i - 1) :
                 ~(/\ buffer[j].timestamp <= renderTime
                   /\ buffer[j + 1].timestamp >= renderTime)
    ELSE 0

\* Lines 646-648: the interpolation factor clampedT as a fraction num / den
Factor(from, to, renderTime) ==
    IF to.timestamp - from.timestamp > 0
    THEN [ num |-> Max(0, Min(to.timestamp - from.timestamp,
                              renderTime - from.timestamp)),
           den |-> to.timestamp - from.timestamp ]
    ELSE [ num |-> 0, den |-> 1 ]

\* Lines 651-661: the copy of to.state in which every player that from.state
\* has too is placed between its two positions and surface angles.
Interpolate(from, to, f) ==
    [ to.state EXCEPT
        !.players =
            [i \in 1..Len(to.state.players) |->
                With(FindPlayer(from.state.players, to.state.players[i].id),
                     LAMBDA k :
                     IF k = 0 THEN to.state.players[i]
                     ELSE [ to.state.players[i] EXCEPT
                              !.x = Lerp(from.state.players[k].x, @,
                                         f.num, f.den),
                              !.y = Lerp(from.state.players[k].y, @,
                                         f.num, f.den),
                              !.sa = LerpAngle(from.state.players[k].sa, @,
                                               f.num, f.den) ])] ]

\* ClientState.getInterpolatedState at time t of performance.now(): null
\* (Undefined) or the state returned.
GetInterpolatedState(buffer, t) ==
    IF Len(buffer) < 2
    THEN IF Len(buffer) > 0 THEN Def(buffer[Len(buffer)].state)
         ELSE Undefined
    ELSE With(BracketIndex(buffer, t - INTERP_DELAY), LAMBDA i :
         IF i = 0
         THEN Def(buffer[Len(buffer)].state)
         ELSE Def(Interpolate(buffer[i], buffer[i + 1],
                              Factor(buffer[i], buffer[i + 1],
                                     t - INTERP_DELAY))))

\* Projectile.fromSerialized
ProjectileFromSerialized(pd) ==
    [ NewProjectile(pd.x, pd.y, pd.vx, pd.vy, pd.o) EXCEPT !.age = pd.a ]

\* Meteorite.fromSerialized; spin is the rotationSpeed the constructor draws.
MeteoriteFromSerialized(md, spin) ==
    [ NewMeteorite(md.x, md.y, md.vx, md.vy, md.r, 0, spin)
        EXCEPT !.rotation = md.rot ]

\* The player loop of _applyNetworkState, lines 628-637, from entry k on
RECURSIVE ApplyPlayers(_, _, _)
ApplyPlayers(ps, data, k) ==
    IF k > Len(data) THEN ps
    ELSE ApplyPlayers(
             With(FindPlayer(ps, data[k].id), LAMBDA n :
                  IF n # 0 THEN [ps EXCEPT ![n] = ApplyState(@, data[k])]
                  ELSE Append(ps, PlayerFromSerialized(data[k]))),
             data, k + 1)

\* Game._applyNetworkState(state) on the replicated part g of a client's
\* Game: players, projectiles, meteorites and matchTimer.
ApplyNetworkState(g, s, spin) ==
    [ players |-> ApplyPlayers(g.players, s.players, 1),
      projectiles |-> [k \in 1..Len(s.projectiles) |->
                          ProjectileFromSerialized(s.projectiles[k])],
      meteorites |-> [k \in 1..Len(s.meteorites) |->
                         MeteoriteFromSerialized(s.meteorites[k], spin)],
      matchTimer |-> s.timer ]

\* The `state' case of onData as a whole, on c = [buffer, game]: push and
\* shift, getInterpolatedState, and onStateReceived on what it returns.
OnState(c, message, t, spin) ==
    With(PushState(c.buffer, message, t), LAMBDA b :
    With(GetInterpolatedState(b, t), LAMBDA r :
         [ buffer |-> b,
           returned |-> r,
           game |-> IF IsDef(r) THEN ApplyNetworkState(c.game, Val(r), spin)
                    ELSE c.game ]))

\* Game._handleGameEvent on the players: a pickup event sets the weapon of
\* its player; kill, hit and meteorite_impact events only draw.
HandleGameEvent(ps, event) ==
    IF event.type = "pickup"
    THEN [k \in 1..Len(ps) |->
             IF k = FindPlayer(ps, event.playerId)
             THEN [ps[k] EXCEPT !.currentWeapon = event.pickupType]
             ELSE ps[k]]
    ELSE ps

\* The client's animation clock is kept modulo this period, so that the
\* ticks of a client can go on for ever in a finite model.
ClientPeriod == 2 * DT

\* A client tick that runs the gravity step on its copy of the players
UpdateClientSimulating(g, time, sendTimer, input, open) ==
    [ players |-> [k \in 1..Len(g.players) |->
                      GravityUpdate(g.players[k], FALSE, FALSE)],
      projectiles |-> g.projectiles,
      meteorites |-> g.meteorites,
      matchTimer |-> g.matchTimer,
      gameTime |-> (time + DT) % ClientPeriod,
      sendTimer |-> IF sendTimer - DT > 0 THEN sendTimer - DT
                    ELSE SEND_RATE,
      sent |-> IF sendTimer - DT > 0 \/ ~open THEN << >>
               ELSE << [type |-> "input", input |-> input] >> ]

\* Game._updateClient(dt) with ClientState.sendInput: the clock of the
\* animations advances, the input is sent to the host when the send timer
\* has run out and the connection is open, and the replicated part g of the
\* Game is only read (HUD, camera, particles).
UpdateClient(g, time, sendTimer, input, open) ==
    [ players |-> g.players,
      projectiles |-> g.projectiles,
      meteorites |-> g.meteorites,
      matchTimer |-> g.matchTimer,
      gameTime |-> (time + DT) % ClientPeriod,
      sendTimer |-> IF sendTimer - DT > 0 THEN sendTimer - DT
                    ELSE SEND_RATE,
      sent |-> IF sendTimer - DT > 0 \/ ~open THEN << >>
               ELSE << [type |-> "input", input |-> input] >> ]

\* State messages received in one run of a client
MaxReceipts == 2

\* The host at the far side of the ice core, just past the angle pi, with
\* the rounds of the duel in flight; the peer 10 units to the left.
WrapMatch ==
    [ GapMatch EXCEPT
        !.players[1] = [Spawn(@, Planets[2], -3102) EXCEPT !.invulnerable = 0],
        !.players[2] = [@ EXCEPT !.x = @ - 100, !.isGrounded = FALSE],
        !.projectiles = DuelMatch.projectiles,
        !.matchTimer = @ - 60, !.gameTime = @ + 60 ]

\* The snapshot the host broadcasts in match state m
Snapshot(m) ==
    SerializeGameState(m.players, m.projectiles, m.meteorites, m.matchTimer,
                       m.gameTime)

Snapshots == { Snapshot(GapMatch), Snapshot(WrapMatch), Snapshot(MeteorMatch) }

\* Milliseconds between two receipts
ClockSteps == { 30, 100 }

\* Outcomes of the rotationSpeed draw of the Meteorite constructor
Spins == { 0, 6000 }

ClientEvents ==
    { [type |-> "pickup", playerId |-> PeerId, pickupId |-> << "pickup", DT >>,
       pickupType |-> "SNIPER"],
      [type |-> "hit", x |-> 1500, y |-> -1420],
      [type |-> "kill", killerId |-> HostId, victimId |-> PeerId] }

\* The replicated part of the Game
Replica == [ players |-> players, projectiles |-> projectiles,
             meteorites |-> meteorites, matchTimer |-> matchTimer ]

\* The connection to the host is open.
HostOpen == HostId \in connections

\* this.clientState._stateBuffer, empty once _leaveGame has dropped the
\* ClientState
StateBuffer ==
    IF IsDef(clientState) THEN Val(clientState).stateBuffer ELSE << >>

\* A client after _joinGame: in the lobby, connected, nothing replicated.
InitLobby ==
    /\ players = << >>
    /\ projectiles = << >>
    /\ meteorites = << >>
    /\ matchTimer = MATCH_TIME
    /\ gameTime = 0
    /\ state = "LOBBY"
    /\ clientState = Def([stateBuffer |-> << >>, sendTimer |-> 0])
    /\ now = 0
    /\ frameInput = Undefined
    /\ lobbyPlayers = << >>
    /\ channels = << >>
    /\ loop = NewGameLoop
    /\ inputManager = NewInputManager
    /\ ticks = 0

\* What nine state messages received 30 ms apart make of a buffer
RECURSIVE Warmed(_, _)
Warmed(c, n) ==
    IF n = 0 THEN c
    ELSE With(Warmed(c, n - 1), LAMBDA w :
              OnState(w, Snapshot(GapMatch), 30 * n, 0))

\* A client in a match, nine state messages after its start
WarmClient ==
    Warmed([ buffer |-> << >>,
             game |-> [ players |-> StartMatch.players,
                        projectiles |-> << >>, meteorites |-> << >>,
                        matchTimer |-> MATCH_TIME ] ], BUFFER_SIZE - 1)

InitWarm ==
    /\ players = WarmClient.game.players
    /\ projectiles = WarmClient.game.projectiles
    /\ meteorites = WarmClient.game.meteorites
    /\ matchTimer = WarmClient.game.matchTimer
    /\ gameTime = 0
    /\ state = "PLAYING"
    /\ clientState = Def([stateBuffer |-> WarmClient.buffer,
                           sendTimer |-> 0])
    /\ now = 30 * (BUFFER_SIZE - 1)
    /\ frameInput = Undefined
    /\ lobbyPlayers = << >>
    /\ channels = << >>
    /\ loop = NewGameLoop
    /\ inputManager = NewInputManager
    /\ ticks = 0

InitClient ==
    /\ InitLobby \/ InitWarm
    /\ connections = {HostId}
    /\ peerPlayerMap = << >>
    /\ pickups = << >>
    /\ pickupSpawnTimer = 0
    /\ hazards = NewHazards
    /\ inputBuffer = Undefined
    /\ events = << >>
    /\ sent = << >>
    /\ pc = "client"
    /\ ci = 0
    /\ lastCall = NoCall

\* What no handler of a client writes
hostVars == << pickups, pickupSpawnTimer, hazards, inputBuffer, events, pc,
               ci, peerPlayerMap, loop, inputManager >>

\* onData for a `start' message: onGameStart, that is _initMatch.  The
\* snapshot buffer is not reset.
ReceiveStart ==
    /\ HostOpen
    /\ state \in {"LOBBY", "RANKING"}
    /\ players' = StartMatch.players
    /\ projectiles' = << >>
    /\ meteorites' = << >>
    /\ matchTimer' = MATCH_TIME
    /\ gameTime' = 0
    /\ state' = "COUNTDOWN"
    /\ lastCall' = [op |-> "start"]
    /\ UNCHANGED << clientState, now, frameInput, lobbyPlayers,
                    channels, connections, sent, ticks >>
    /\ UNCHANGED hostVars

\* Game.update of a client in state COUNTDOWN, on the tick the countdown
\* runs out
ClientCountdownEnds ==
    /\ state = "COUNTDOWN"
    /\ state' = "PLAYING"
    /\ lastCall' = [op |-> "countdown"]
    /\ UNCHANGED << players, projectiles, meteorites, matchTimer, gameTime,
                    clientState, now, frameInput, lobbyPlayers,
                    channels, connections, sent, ticks >>
    /\ UNCHANGED hostVars

\* onData for a `state' message of the host, received d ms after the
\* message before
ReceiveState ==
    /\ HostOpen
    /\ state \in {"COUNTDOWN", "PLAYING"}
    /\ ticks < MaxReceipts
    /\ \E d \in ClockSteps, message \in Snapshots :
       \E spin \in IF message.meteorites = << >> THEN {0} ELSE Spins :
       \E r \in { OnState([buffer |-> StateBuffer, game |-> Replica],
                          message, now + d, spin) } :
         /\ now' = now + d
         /\ clientState' = [clientState EXCEPT ![1].stateBuffer = r.buffer]
         /\ players' = r.game.players
         /\ projectiles' = r.game.projectiles
         /\ meteorites' = r.game.meteorites
         /\ matchTimer' = r.game.matchTimer
         /\ lastCall' = [op |-> "state", message |-> message,
                         returned |-> r.returned]
    /\ ticks' = ticks + 1
    /\ UNCHANGED << gameTime, state, connections, sent, frameInput, lobbyPlayers,
                    channels >>
    /\ UNCHANGED hostVars

\* onData for an `event' message: onEventReceived, that is _handleGameEvent
ReceiveEvent ==
    /\ HostOpen
    /\ state = "PLAYING"
    /\ \E event \in ClientEvents :
         /\ players' = HandleGameEvent(players, event)
         /\ lastCall' = [op |-> "event", event |-> event]
    /\ UNCHANGED << projectiles, meteorites, matchTimer, gameTime, state,
                    clientState, now, frameInput, lobbyPlayers,
                    channels, connections, sent, ticks >>
    /\ UNCHANGED hostVars

\* onData for an `end' message: onGameEnd, that is _showRankings
ReceiveEnd ==
    /\ HostOpen
    /\ state = "PLAYING"
    /\ state' = "RANKING"
    /\ lastCall' = [op |-> "end"]
    /\ UNCHANGED << players, projectiles, meteorites, matchTimer, gameTime,
                    clientState, now, frameInput, lobbyPlayers,
                    channels, connections, sent, ticks >>
    /\ UNCHANGED hostVars

\* Game.update of a client in state PLAYING: _updateClient
ClientTick ==
    /\ state = "PLAYING"
    /\ \E input \in { NoInput, Input(100, TRUE, Undefined) } :
       \E r \in { UpdateClient(Replica, gameTime, Val(clientState).sendTimer,
                               input, HostOpen) } :
         /\ players' = r.players
         /\ projectiles' = r.projectiles
         /\ meteorites' = r.meteorites
         /\ matchTimer' = r.matchTimer
         /\ gameTime' = r.gameTime
         /\ clientState' = [clientState EXCEPT ![1].sendTimer = r.sendTimer]
         /\ sent' = r.sent
    /\ lastCall' = [op |-> "clientTick"]
    /\ UNCHANGED << state, now, frameInput, lobbyPlayers,
                    channels, connections, ticks >>
    /\ UNCHANGED hostVars

\* The `close' handler of the connection to the host on a client
\* (_setupDataHandlers): the connection is deleted; onPlayerLeave is not
\* set on a client, and nothing else is told.
HostCloses ==
    /\ HostOpen
    /\ state \in {"LOBBY", "COUNTDOWN", "PLAYING", "RANKING"}
    /\ connections' = connections \ {HostId}
    /\ lastCall' = [op |-> "close"]
    /\ UNCHANGED << players, projectiles, meteorites, matchTimer, gameTime,
                    state, clientState, now, frameInput, lobbyPlayers,
                    channels, sent, ticks >>
    /\ UNCHANGED hostVars

\* Game._leaveGame, bound to the leave button of the lobby and to the menu
\* button of the ranking screen
LeaveGame ==
    /\ state \in {"LOBBY", "RANKING"}
    /\ connections' = {}
    /\ clientState' = Undefined
    /\ state' = "MENU"
    /\ lastCall' = [op |-> "leave"]
    /\ UNCHANGED << players, projectiles, meteorites, matchTimer, gameTime,
                    now, frameInput, lobbyPlayers,
                    channels, sent, ticks >>
    /\ UNCHANGED hostVars

NextClient ==
    \/ ReceiveStart
    \/ ClientCountdownEnds
    \/ ReceiveState
    \/ ReceiveEvent
    \/ ReceiveEnd
    \/ ClientTick
    \/ HostCloses
    \/ LeaveGame

SpecClient == InitClient /\ [][NextClient]_vars

\* The frames of a client follow one another for ever: the countdown runs
\* out and the ticks of a match are taken.
SpecClientLive ==
    /\ InitClient
    /\ [][NextClient]_vars
    /\ WF_vars(ClientCountdownEnds)
    /\ WF_vars(ClientTick)

-----------------------------------------------------------------------------
(* The end of a match on the host                                          *)

\* Ticks explored around the end of a match
EndTicks == 3

\* A settled match with `left' of its three minutes to go
TimeLeftMatch(left) == [SettledMatch EXCEPT !.matchTimer = left]

InitEnd ==
    \E m \in { DuelMatch, TimeLeftMatch(DT), TimeLeftMatch(2 * DT),
               SettledMatch } :
        /\ players = m.players
        /\ projectiles = m.projectiles
        /\ meteorites = m.meteorites
        /\ pickups = m.pickups
        /\ pickupSpawnTimer = m.pickupSpawnTimer
        /\ hazards = m.hazards
        /\ inputBuffer = m.inputBuffer
        /\ matchTimer = m.matchTimer
        /\ gameTime = m.gameTime
        /\ state = "PLAYING"
        /\ events = << >>
        /\ sent = << >>
        /\ pc = "input"
        /\ ci = 0
        /\ ticks = 0
        /\ lastCall = NoCall
        /\ HostNet

\* Game.update runs _updateHost in the PLAYING state only.
EndTick == TickInput(LocalInputs, EndTicks)

NextEnd ==
    \/ EndTick
    \/ HostGravity
    \/ HostTimers
    \/ HostEntities
    \/ HostPickups
    \/ HostHazards
    \/ HostCollision
    \/ HostRespawn
    \/ HostFinish

SpecEnd == InitEnd /\ [][NextEnd]_vars

-----------------------------------------------------------------------------
(* The two seconds of spawn protection and the void                        *)

\* Ticks explored: the spawn protection takes 120 ticks
VoidTicks == 123

\* The peer, who picked up the sniper rifle before it was killed, is about
\* to respawn, and keeps its jump key down and its aim on the centre of the
\* body it respawns on.
RespawningMatch ==
    [ DeadMatch EXCEPT
        !.players[2].currentWeapon = "SNIPER",
        !.inputBuffer = Def(Input(0, TRUE, Def(Vec2(Planets[3].x,
                                                    Planets[3].y)))) ]

InitVoid ==
    \E m \in { RespawningMatch, VoidMatch } :
        /\ players = m.players
        /\ projectiles = m.projectiles
        /\ meteorites = m.meteorites
        /\ pickups = m.pickups
        /\ pickupSpawnTimer = m.pickupSpawnTimer
        /\ hazards = m.hazards
        /\ inputBuffer = m.inputBuffer
        /\ matchTimer = m.matchTimer
        /\ gameTime = m.gameTime
        /\ state = "PLAYING"
        /\ events = << >>
        /\ sent = << >>
        /\ pc = "input"
        /\ ci = 0
        /\ ticks = 0
        /\ lastCall = NoCall
        /\ HostNet

VoidTick == TickInput({NoInput}, VoidTicks)

NextVoid ==
    \/ VoidTick
    \/ HostGravity
    \/ HostTimers
    \/ HostEntities
    \/ HostPickups
    \/ HostHazards
    \/ HostCollision
    \/ HostRespawn
    \/ HostFinish

SpecVoid == InitVoid /\ [][NextVoid]_vars

-----------------------------------------------------------------------------
(* Death and the three seconds of the respawn timer                        *)

\* Ticks explored: the respawn timer takes 180 ticks
RespawnTicks == 182

\* The sniper round of the peer, who is unhurt, is about to kill the host,
\* early in the match.
KilledMatch ==
    [ DuelMatch EXCEPT
        !.players[2] = [@ EXCEPT !.kills = 0, !.health = MAX_HEALTH],
        !.projectiles = << @[1] >> ]

InitRespawn ==
    \E m \in { KilledMatch, VoidMatch } :
        /\ players = m.players
        /\ projectiles = m.projectiles
        /\ meteorites = m.meteorites
        /\ pickups = m.pickups
        /\ pickupSpawnTimer = m.pickupSpawnTimer
        /\ hazards = m.hazards
        /\ inputBuffer = m.inputBuffer
        /\ matchTimer = m.matchTimer
        /\ gameTime = m.gameTime
        /\ state = "PLAYING"
        /\ events = << >>
        /\ sent = << >>
        /\ pc = "input"
        /\ ci = 0
        /\ ticks = 0
        /\ lastCall = NoCall
        /\ HostNet

RespawnTick == TickInput({NoInput}, RespawnTicks)

NextRespawn ==
    \/ RespawnTick
    \/ HostGravity
    \/ HostTimers
    \/ HostEntities
    \/ HostPickups
    \/ HostHazards
    \/ HostCollision
    \/ HostRespawn
    \/ HostFinish

SpecRespawn == InitRespawn /\ [][NextRespawn]_vars

\* The game loop keeps calling Game.update, and _updateHost runs to its
\* end each time.
SpecRespawnLive ==
    /\ InitRespawn
    /\ [][NextRespawn]_vars
    /\ WF_vars(NextRespawn)

-----------------------------------------------------------------------------
(* The meteorite spawner over a minute of a match                          *)

\* Ticks explored: the second shower begins after 3600 ticks, and by tick
\* 3855 a spawn has come due with the collection full
HazardTicks == 3860

\* The Math.random() outcomes of a slow meteorite that enters between two
\* bodies of the inner ring and flies for seven seconds before it hits the
\* core.
SlowMeteor ==
    [angle |-> 650, aim |-> -200, speed |-> 1000, radius |-> 100,
     rotation |-> 0, rotationSpeed |-> 0]

\* The spawner as _initMatch leaves it (hazards.reset()) in the first match
\* and in a rematch that follows a match ended during a shower.
InitHazard ==
    \E h \in { NewHazards,
               [NewHazards EXCEPT !.showerActive = TRUE,
                                  !.showerElapsed = 1200] } :
        /\ players = StartMatch.players
        /\ projectiles = << >>
        /\ meteorites = << >>
        /\ pickups = << >>
        /\ pickupSpawnTimer = 0
        /\ hazards = HazardReset(h)
        /\ inputBuffer = Undefined
        /\ matchTimer = MATCH_TIME
        /\ gameTime = 0
        /\ state = "PLAYING"
        /\ events = << >>
        /\ sent = << >>
        /\ pc = "input"
        /\ ci = 0
        /\ ticks = 0
        /\ lastCall = NoCall
        /\ HostNet

\* The latest spawn attempt and the one before it, as the record of the
\* spawner's ticks keeps them
LastAttempt == IF lastCall.op = "hazard" THEN lastCall.last ELSE Undefined
PrevAttempt == IF lastCall.op = "hazard" THEN lastCall.prev ELSE Undefined

\* What a host tick does to the meteorites and the spawner (_updateHost,
\* lines 405-417, 461 and 464-467): the meteorites move, hazards.update
\* runs, and CollisionSystem.update removes the meteorites that hit a body
\* or are too old.  No player takes part: a meteorite that hits a player is
\* left as it is, and the spawner reads nothing of the players.
HazardTick ==
    /\ pc = "input"
    /\ state = "PLAYING"
    /\ ticks < HazardTicks
    /\ \E moved \in { [k \in 1..Len(meteorites) |->
                          MeteoriteTick(meteorites[k])] } :
       \E u \in { HazardUpdate(hazards, moved, SlowMeteor) } :
         /\ hazards' = u.hazards
         /\ meteorites' =
               CollisionUpdate(<< >>, << >>, u.meteorites).meteorites
         /\ lastCall' =
               [ op |-> "hazard", attempt |-> u.spawned,
                 before |-> Len(moved), after |-> Len(u.meteorites),
                 last |-> IF u.spawned
                          THEN Def([time |-> u.hazards.gameTime,
                                    shower |-> u.hazards.showerActive])
                          ELSE LastAttempt,
                 prev |-> IF u.spawned THEN LastAttempt ELSE PrevAttempt ]
    /\ gameTime' = gameTime + DT
    /\ matchTimer' = matchTimer - DT
    /\ ticks' = ticks + 1
    /\ UNCHANGED << players, projectiles, pickups, pickupSpawnTimer,
                    inputBuffer, state, events, sent, pc, ci >>
    /\ UNCHANGED netVars

NextHazard == HazardTick

SpecHazard == InitHazard /\ [][NextHazard]_vars

-----------------------------------------------------------------------------
(* Properties                                                              *)

\* C1: on the host every alive player with isGrounded = true is at the
\* distance radius + SURFACE_OFFSET (2 units, 200 hundredths) from the
\* centre of the body it stands on, here the planet it was spawned on.
GroundedAtSurfaceOffset ==
    \A k \in 1..Len(players) :
        (players[k].alive /\ players[k].isGrounded) =>
            DistTo(players[k].x, players[k].y,
                   lastCall.planets[k + 1].x, lastCall.planets[k + 1].y)
              = lastCall.planets[k + 1].radius + 200

\* During the match, on the grid of tenths: every alive grounded player is
\* within a tenth of the distance radius + SURFACE_OFFSET from the centre
\* of the nearest body.
GroundedOnSurface ==
    \A k \in 1..Len(players) :
        (players[k].alive /\ players[k].isGrounded) =>
            Abs(NearestPlanet(players[k].x, players[k].y).distance
                  - SURFACE_OFFSET) <= 1

\* C2: the health of every player stays between 0 and its maxHealth.
HealthInRange ==
    \A k \in 1..Len(players) :
        /\ 0 <= players[k].health
        /\ players[k].health <= players[k].maxHealth

\* The collisions of this tick have killed a player with a hit worth more
\* than the health it had left: its health is 0.
KilledByOverkill ==
    /\ pc = "respawn"
    /\ \E k \in 1..Len(players) :
          /\ ~players[k].alive
          /\ players[k].health = 0
          /\ players[k].respawnTimer = RESPAWN_TIME
          /\ \E e \in 1..Len(events) :
                /\ events[e].type = "kill"
                /\ events[e].victimId = players[k].id

\* C4: a successful GravitySystem.jump on a grounded player leaves it
\* airborne at once, and while its jump-grace timer is above 0 no locomotion
\* update grounds it again, be it within the surface threshold of a body or
\* inside one.
JumpGraceBlocksLanding ==
    [][ \A k \in 1..Len(players) :
          /\ (pc = "input" /\ pc' = "gravity" /\ players[k].isGrounded
                /\ JumpedAt(k)' = Def(gameTime'))
              => ~players'[k].isGrounded
          /\ (pc = "gravity" /\ ~players[k].isGrounded
                /\ IsDef(players[k].jumpGraceTimer)
                /\ Val(players[k].jumpGraceTimer) > 0)
              => ~players'[k].isGrounded ]_vars

\* The host jumped less than 0.35 s ago, the locomotion update has just run
\* on it, and it is inside the lava core, still airborne.
JumpedIntoBody ==
    /\ pc = "timers"
    /\ IsDef(JumpedAt(1))
    /\ gameTime < Val(JumpedAt(1)) + JUMP_GRACE
    /\ Val(players[1].jumpGraceTimer) > 0
    /\ ~players[1].isGrounded
    /\ IsInside(Planets[1], players[1].x, players[1].y)

\* C5: the per-tick timer update counts the jump-grace timer down, and from
\* 0.35 s after the jump on an airborne player within the surface threshold
\* of a body is grounded by the next locomotion update.
JumpGraceExpires ==
    [][ \A k \in 1..Len(players) :
          /\ (pc = "timers" /\ IsDef(players[k].jumpGraceTimer)
                /\ Val(players[k].jumpGraceTimer) > 0)
              => Val(players'[k].jumpGraceTimer)
                   = Val(players[k].jumpGraceTimer) - DT
          /\ (pc = "gravity" /\ IsDef(JumpedAt(k))
                /\ gameTime >= Val(JumpedAt(k)) + JUMP_GRACE
                /\ players[k].alive /\ ~players[k].isGrounded
                /\ NearestPlanet(players[k].x, players[k].y).distance
                     <= SURFACE_THRESHOLD)
              => players'[k].isGrounded ]_vars

TakeDamageGuarded ==
    [][ (ticks' # ticks
           /\ \/ lastCall'.op = "takeDamage"
                 /\ (~players[1].alive \/ players[1].invulnerable > 0)
              \/ lastCall'.op \in {"gravityUpdate", "collisionUpdate",
                                    "respawn"}
                 /\ players[1].alive /\ players[1].invulnerable > 0) =>
          /\ lastCall'.op = "takeDamage" => lastCall'.returned = FALSE
          /\ players'[1].health = players[1].health
          /\ players'[1].alive = players[1].alive
          /\ players'[1].deaths = players[1].deaths
          /\ players'[1].damageFlash = players[1].damageFlash
          /\ players'[1].respawnTimer = players[1].respawnTimer ]_vars

\* takeDamage(9999) has just returned on a player that is alive and
\* invulnerable.
InvulnerableSurvives ==
    /\ lastCall.op = "takeDamage"
    /\ lastCall.amount = 9999
    /\ lastCall.returned = FALSE
    /\ players[1].alive
    /\ players[1].invulnerable > 0

\* C10: WeaponSystem.fire on a player that is dead or whose shootCooldown
\* is above 0 returns an empty list, pushes no projectile, emits no muzzle
\* flash and leaves shootCooldown, shootCooldownMax, shotsFired and the
\* velocity as they were.
FireRefused ==
    [][ (ticks' # ticks /\ lastCall'.op = "fire"
           /\ (~players[1].alive \/ players[1].shootCooldown > 0)) =>
          /\ lastCall'.returned = << >>
          /\ ~lastCall'.muzzleFlash
          /\ projectiles' = projectiles
          /\ players'[1].shootCooldown = players[1].shootCooldown
          /\ players'[1].shootCooldownMax = players[1].shootCooldownMax
          /\ players'[1].shotsFired = players[1].shotsFired
          /\ players'[1].vx = players[1].vx
          /\ players'[1].vy = players[1].vy ]_vars

\* fire has just returned an empty list for a living player on cooldown.
FiredOnCooldown ==
    /\ lastCall.op = "fire"
    /\ lastCall.returned = << >>
    /\ players[1].alive
    /\ players[1].shootCooldown > 0

\* The players projectile q can hit: alive, vulnerable, not its owner, and
\* overlapping it
Hittable(q) ==
    { k \in 1..Len(players) :
        /\ players[k].alive
        /\ players[k].invulnerable <= 0
        /\ players[k].id # q.ownerId
        /\ Overlaps(q, players[k]) }

\* The first player of a set, in player order
First(S) == CHOOSE k \in S : \A j \in S : k <= j

\* An iteration of the projectile loop on an active projectile
ProjectileExamined ==
    pc = "projectiles" /\ ci' = ci - 1 /\ projectiles[ci].active

\* C6: in CollisionSystem.update a projectile never lowers the health of
\* the player whose id is its ownerId, and it stays active when the players
\* it overlaps are its owner and players it cannot hit.
OwnProjectileHarmless ==
    [][ ProjectileExamined =>
          /\ \A k \in 1..Len(players) :
                players[k].id = projectiles[ci].ownerId =>
                    /\ players'[k].health = players[k].health
                    /\ players'[k].alive = players[k].alive
          /\ Hittable(projectiles[ci]) = {} => projectiles'[ci].active ]_vars

\* A projectile has just been examined that overlaps its owner, who is
\* alive and vulnerable; it is still active.
OverlapsOwner ==
    /\ lastCall.op = "projectile"
    /\ projectiles[lastCall.index].active
    /\ \E k \in 1..Len(players) :
          /\ players[k].id = projectiles[lastCall.index].ownerId
          /\ players[k].alive
          /\ players[k].invulnerable = 0
          /\ Overlaps(projectiles[lastCall.index], players[k])

\* C7: an active projectile that overlaps vulnerable players other than its
\* owner damages the first of them in player order and nobody else, becomes
\* inactive, and yields one hit or kill event and one shotsHit credit; one
\* that overlaps none yields neither.
OneHitPerProjectile ==
    [][ ProjectileExamined =>
          IF Hittable(projectiles[ci]) = {}
          THEN /\ events' = events
               /\ players' = players
          ELSE /\ ~projectiles'[ci].active
               /\ Len(events') = Len(events) + 1
               /\ events'[Len(events')].type \in {"hit", "kill"}
               /\ \A k \in 1..Len(players) :
                     /\ players'[k].health =
                           IF k = First(Hittable(projectiles[ci]))
                           THEN Max(0, players[k].health
                                         - projectiles[ci].damage)
                           ELSE players[k].health
                     /\ players'[k].shotsHit =
                           IF players[k].id = projectiles[ci].ownerId
                           THEN players[k].shotsHit + 1
                           ELSE players[k].shotsHit ]_vars

\* A projectile has just hit the first of two players it overlapped: the
\* second, as vulnerable as the first, is unharmed.
SharedHit ==
    /\ lastCall.op = "projectile"
    /\ ~projectiles[lastCall.index].active
    /\ \E j \in 1..Len(players), k \in 1..Len(players) :
          /\ j < k
          /\ players[j].id # projectiles[lastCall.index].ownerId
          /\ players[k].id # projectiles[lastCall.index].ownerId
          /\ Overlaps(projectiles[lastCall.index], players[j])
          /\ Overlaps(projectiles[lastCall.index], players[k])
          /\ players[j].damageFlash = DAMAGE_FLASH
          /\ players[j].invulnerable = 0
          /\ players[k].alive
          /\ players[k].invulnerable = 0
          /\ players[k].health = players[k].maxHealth
          /\ players[k].damageFlash = 0

\* C8: a projectile hit pushes a `kill' event, and counts a kill for the
\* attacker, exactly when the target died of it, and a `hit' event
\* otherwise; either way the attacker's shotsHit grows by 1 and its
\* damageDealt by the projectile's damage.
HitOrKill ==
    [][ (ProjectileExamined /\ Hittable(projectiles[ci]) # {}) =>
          /\ events'[Len(events')].type =
                IF ~players'[First(Hittable(projectiles[ci]))].alive
                THEN "kill" ELSE "hit"
          /\ \A k \in 1..Len(players) :
                players[k].id = projectiles[ci].ownerId =>
                    /\ players'[k].kills =
                          IF ~players'[First(Hittable(projectiles[ci]))].alive
                          THEN players[k].kills + 1 ELSE players[k].kills
                    /\ players'[k].shotsHit = players[k].shotsHit + 1
                    /\ players'[k].damageDealt =
                          players[k].damageDealt + projectiles[ci].damage ]_vars

\* A projectile has just killed a player: the last event is the kill, and
\* the killer has reached ten kills.
KillCredited ==
    /\ lastCall.op = "projectile"
    /\ ~projectiles[lastCall.index].active
    /\ events # << >>
    /\ events[Len(events)].type = "kill"
    /\ events[Len(events)].killerId = projectiles[lastCall.index].ownerId
    /\ \E k \in 1..Len(players) :
          /\ players[k].id = events[Len(events)].killerId
          /\ players[k].kills = KILL_TARGET

-----------------------------------------------------------------------------
(* The shotgun salvo                                                       *)

\* The distance between two angles, around the circle
AngleGap(a, b) == Abs(((a - b + PI) % TWO_PI) - PI)

\* The largest random perturbation of a pellet's angle,
\* (Math.random() - 0.5) * 0.05: 0.025 rad
AIM_JITTER == 25

\* What the perturbation, and the rounding of the direction of a pellet's
\* velocity, can add to its base aim angle
AimTolerance == AIM_JITTER + 5

\* C11: when an alive player whose shootCooldown is at most 0 fires the
\* shotgun, fire returns exactly seven projectiles, all owned by the player,
\* whose base aim angles are evenly spaced over an arc of 45 degrees centred
\* on the direction of the target (pellet i of 0..6 at the aim angle minus
\* pi/8 plus i * pi/24, up to the random perturbation of 0.025 rad), the
\* player's shotsFired grows by 1 and its shootCooldown becomes 0.35 s.
ShotgunSalvo ==
    [][ ( /\ ticks' = ticks + 1
          /\ lastCall'.op = "fire"
          /\ players[1].alive
          /\ players[1].shootCooldown <= 0
          /\ players[1].currentWeapon \in {"undefined", "SHOTGUN"} ) =>
          /\ Len(lastCall'.returned) = 7
          /\ projectiles' = projectiles \o lastCall'.returned
          /\ \A i \in 1..Len(lastCall'.returned) :
                /\ lastCall'.returned[i].ownerId = players[1].id
                /\ lastCall'.returned[i].active
                /\ AngleGap(Atan2(lastCall'.returned[i].vy,
                                  lastCall'.returned[i].vx),
                            Atan2(lastCall'.target.y - players[1].y,
                                  lastCall'.target.x - players[1].x)
                              - RDiv(PI, 8) + RDiv((i - 1) * PI, 24))
                      <= AimTolerance
          /\ players'[1].shotsFired = players[1].shotsFired + 1
          /\ players'[1].shootCooldown = 210 ]_vars

\* A player that was ready has just fired the shotgun for the first time:
\* seven pellets of its own are in flight and its cooldown runs.
ShotgunFired ==
    /\ lastCall.op = "fire"
    /\ lastCall.muzzleFlash
    /\ Len(lastCall.returned) = 7
    /\ Len(projectiles) = 7
    /\ players[1].alive
    /\ players[1].shotsFired = 1
    /\ players[1].shootCooldown = 210
    /\ \A i \in 1..7 : projectiles[i].ownerId = players[1].id

-----------------------------------------------------------------------------
(* The peer's input slot                                                   *)

\* The input step of a host tick is being taken.
InputStep == pc = "input" /\ pc' = "gravity"

\* The projectiles the step has pushed
Pushed == SubSeq(projectiles', Len(projectiles) + 1, Len(projectiles'))

\* C12: on the host, receiving an input message of the peer overwrites the
\* peer's slot of the input buffer with the input of the message and changes
\* nothing else (players, projectiles, meteorites and the rest of the match
\* are as before); at every tick getInput(peer) is the input of the message
\* received last, however receipts and ticks interleave: the input of the
\* last message when one arrived since the tick before, and what the tick
\* before read otherwise.
LatestInputOnly ==
    [][ /\ (pc = "input" /\ pc' = "input" /\ connections' = connections) =>
              /\ lastCall'.op = "input"
              /\ inputBuffer' = Def(lastCall'.input)
              /\ UNCHANGED << players, projectiles, meteorites, pickups,
                              pickupSpawnTimer, hazards, matchTimer,
                              gameTime, state, events, sent, peerPlayerMap >>
        /\ InputStep =>
              /\ lastCall'.buffered =
                    IF lastCall.op = "input" THEN Def(lastCall.input)
                    ELSE IF lastCall.op = "tick" THEN lastCall.buffered
                    ELSE Undefined
              /\ PeerId \in DOMAIN peerPlayerMap =>
                    lastCall'.applied = lastCall'.buffered ]_vars

\* A tick has just applied an input without a jump to the peer's player,
\* which had jumped on an earlier tick: the input of that tick was
\* overwritten.
InputOverwritten ==
    /\ lastCall.op = "tick"
    /\ IsDef(lastCall.applied)
    /\ ~Val(lastCall.applied).jump
    /\ IsDef(lastCall.jumpedAt[2])
    /\ Val(lastCall.jumpedAt[2]) < gameTime

\* C13: on a host tick on which the peer has no input buffered, the input
\* step leaves the peer's player as it is: its move intent stays 0, no
\* projectile of the peer is pushed, it does not jump, and the tick is taken
\* like any other.
AbsentInputNeutral ==
    [][ (InputStep /\ ~IsDef(inputBuffer)) =>
          /\ ~IsDef(lastCall'.applied)
          /\ players'[2] = players[2]
          /\ players'[2].moveX = 0
          /\ lastCall'.jumpedAt[2] = JumpedAt(2)
          /\ \A i \in 1..Len(Pushed) : Pushed[i].ownerId # players[2].id
          /\ gameTime' = gameTime + DT ]_vars

\* A whole tick has been taken with no input of the connected peer
\* buffered: the peer's player has not moved from its spawn point.
TickedWithoutInput ==
    /\ lastCall.op = "tick"
    /\ ~IsDef(lastCall.buffered)
    /\ ~IsDef(inputBuffer)
    /\ PeerId \in connections
    /\ ticks >= 1
    /\ players[2].alive
    /\ players[2].moveX = 0
    /\ projectiles = << >>

\* C20: when the peer's connection closes during a match, nothing of the
\* match changes at the close; afterwards the host keeps ticking, the peer's
\* player stays in the players array, gravity and the walk of its last move
\* intent are still applied to it, it is still part of every serialized
\* state, and the input step applies no input to it any more: its move
\* intent stays what the last applied input made it, and it neither jumps
\* nor fires.
PeerKeptAfterLeave ==
    [][ /\ connections' # connections =>
              /\ PeerId \notin connections'
              /\ PeerId \notin DOMAIN peerPlayerMap'
              /\ UNCHANGED << players, projectiles, meteorites, pickups,
                              hazards, matchTimer, gameTime, state,
                              inputBuffer >>
        /\ PeerId \notin connections =>
              /\ Len(players') = Len(players)
              /\ players'[2].id = players[2].id
              /\ inputBuffer' = inputBuffer
              /\ (pc = "input" /\ state = "PLAYING" /\ ticks < PeerTicks) =>
                    ENABLED PeerTick
              /\ InputStep =>
                    /\ ~IsDef(lastCall'.applied)
                    /\ players'[2] = players[2]
                    /\ lastCall'.jumpedAt[2] = JumpedAt(2)
                    /\ \A i \in 1..Len(Pushed) :
                          Pushed[i].ownerId # players[2].id
              /\ pc = "gravity" =>
                    \E burn \in BOOLEAN, heal \in BOOLEAN :
                        players'[2] = GravityUpdate(players[2], burn, heal)
              /\ pc = "finish" =>
                    /\ sent' # << >>
                    /\ \E i \in 1..Len(sent') :
                          /\ sent'[i].type = "state"
                          /\ Len(sent'[i].state.players) = Len(players)
                          /\ sent'[i].state.players[2] =
                                SerializePlayer(players[2]) ]_vars

\* The peer has left with a move intent applied, and a whole tick has been
\* taken since: its player is still there, has moved on, and was serialized.
TickedAfterLeave ==
    /\ PeerId \notin connections
    /\ lastCall.op = "tick"
    /\ ~IsDef(lastCall.applied)
    /\ IsDef(lastCall.buffered)
    /\ pc = "input"
    /\ ticks = 2
    /\ Len(players) = 2
    /\ players[2].alive
    /\ players[2].moveX = -100
    /\ sent # << >>
    /\ sent[Len(sent)].type = "state"
    /\ sent[Len(sent)].state.players[2].id = PeerId

-----------------------------------------------------------------------------
(* The client's snapshot buffer and its interpolation                      *)

\* A state message has just been handled.
StateHandled == lastCall.op = "state"

\* The time getInterpolatedState aims at
RenderTime == now - INTERP_DELAY

\* Entry i of the buffer and its successor bracket the render time.
Brackets(i) ==
    /\ StateBuffer[i].timestamp <= RenderTime
    /\ StateBuffer[i + 1].timestamp >= RenderTime

\* The first pair of the buffer that brackets the render time, 0 when no
\* pair does
FirstBracket ==
    IF \E i \in 1..(Len(StateBuffer) - 1) : Brackets(i)
    THEN CHOOSE i \in 1..(Len(StateBuffer) - 1) :
             Brackets(i) /\ \A j \in 1..(i - 1) : ~Brackets(j)
    ELSE 0

\* C14: the client's snapshot buffer never holds more than 10 entries and
\* its timestamps never decrease from one entry to the next; a received
\* state message is appended with the time of its receipt, behind the
\* entries received before it in their order, and when the buffer was full
\* only its oldest entry is dropped; nothing else changes the buffer while
\* the ClientState lives.
BufferKeepsNewestTen ==
    [][ /\ Len(StateBuffer') <= 10
        /\ \A i \in 1..(Len(StateBuffer') - 1) :
              StateBuffer'[i].timestamp <= StateBuffer'[i + 1].timestamp
        /\ lastCall'.op = "state" =>
              StateBuffer' =
                 (IF Len(StateBuffer) < 10 THEN StateBuffer
                  ELSE SubSeq(StateBuffer, 2, Len(StateBuffer)))
                 \o << [state |-> lastCall'.message, timestamp |-> now'] >>
        /\ (lastCall'.op # "state" /\ IsDef(clientState')) =>
              StateBuffer' = StateBuffer ]_vars

\* An eleventh state message has been received: the buffer holds ten
\* entries, the newest last, and the oldest of the ten before it is gone.
OldestEvicted ==
    /\ StateHandled
    /\ Len(StateBuffer) = 10
    /\ StateBuffer[1].timestamp = 60
    /\ StateBuffer[10].timestamp = now
    /\ StateBuffer[10].state = lastCall.message
    /\ StateBuffer[10].state # StateBuffer[9].state

\* C15: getInterpolatedState returns null when the buffer is empty, the
\* state of the only entry when there is one, and the state of the newest
\* entry, unmodified, when no adjacent pair of entries brackets the render
\* time (now minus the interpolation delay); this is what the handler of a
\* state message got from it.
FallsBackToNewest ==
    IsDef(clientState) =>
        /\ Len(StateBuffer) = 0 =>
              GetInterpolatedState(StateBuffer, now) = Undefined
        /\ Len(StateBuffer) = 1 =>
              GetInterpolatedState(StateBuffer, now)
                 = Def(StateBuffer[1].state)
        /\ (Len(StateBuffer) >= 2
              /\ \A i \in 1..(Len(StateBuffer) - 1) : ~Brackets(i)) =>
              GetInterpolatedState(StateBuffer, now)
                 = Def(StateBuffer[Len(StateBuffer)].state)
        /\ StateHandled =>
              lastCall.returned = GetInterpolatedState(StateBuffer, now)

\* Two different snapshots were received within the interpolation delay: no
\* pair brackets the render time, and the second was returned as received.
NewestReturned ==
    /\ StateHandled
    /\ Len(StateBuffer) = 2
    /\ StateBuffer[2].timestamp - StateBuffer[1].timestamp < INTERP_DELAY
    /\ StateBuffer[1].state # StateBuffer[2].state
    /\ \A i \in 1..(Len(StateBuffer) - 1) : ~Brackets(i)
    /\ lastCall.returned = Def(StateBuffer[2].state)
    /\ projectiles # << >>

\* The player of snapshot entry `from' with the id of q, as a sequence of
\* at most one
Same(from, q) ==
    SelectSeq(from.state.players, LAMBDA fp : fp.id = q.id)

\* v lies at the fraction num / den of the way from a to a + d, up to the
\* rounding to the grid
AtFraction(v, a, d, num, den) == 2 * Abs((v - a) * den - d * num) <= den

\* C16: when an adjacent pair (from, to) of the buffer brackets the render
\* time, every player of the returned state that both snapshots hold is at
\* from + (to - from) * f, with f = (renderTime - from.timestamp) /
\* (to.timestamp - from.timestamp) within [0, 1], and its surface angle is
\* at the fraction f of the shortest arc from from's to to's; a render time
\* equal to from.timestamp gives from's position, and f = 0.3 between two
\* positions 10 apart gives 3 from the first.
InterpolatesBetweenPair ==
    (StateHandled /\ Len(StateBuffer) >= 2 /\ FirstBracket # 0) =>
        With(StateBuffer[FirstBracket], LAMBDA from :
        With(StateBuffer[FirstBracket + 1], LAMBDA to :
        With(RenderTime - from.timestamp, LAMBDA num :
        With(to.timestamp - from.timestamp, LAMBDA den :
           /\ 0 <= num /\ num <= den
           /\ IsDef(lastCall.returned)
           /\ Len(Val(lastCall.returned).players) = Len(to.state.players)
           /\ \A i \in 1..Len(to.state.players) :
                With(Val(lastCall.returned).players[i], LAMBDA q :
                With(to.state.players[i], LAMBDA tp :
                   /\ q.id = tp.id
                   /\ \A k \in 1..Len(Same(from, q)) :
                        With(Same(from, q)[k], LAMBDA fp :
                           IF den = 0
                           THEN q.x = fp.x /\ q.y = fp.y /\ q.sa = fp.sa
                           ELSE
                           /\ AtFraction(q.x, fp.x, tp.x - fp.x, num, den)
                           /\ AtFraction(q.y, fp.y, tp.y - fp.y, num, den)
                           /\ \E turn \in {-TWO_PI, 0, TWO_PI} :
                                 /\ Abs(tp.sa - fp.sa + turn) <= PI
                                 /\ AtFraction(q.sa, fp.sa,
                                               tp.sa - fp.sa + turn,
                                               num, den)
                           /\ num = 0 => q.x = fp.x /\ q.y = fp.y
                           /\ (10 * num = 3 * den /\ tp.x - fp.x = -100) =>
                                 q.x = fp.x - 30)))))))

\* The render time is three tenths of the way between two snapshots: the
\* peer, 10 units to the left in the later one, is drawn 3 units to the
\* left, and the host, which went from 3.14 rad to -3.10 rad, is drawn just
\* beyond 3.14 rad and not on the long way round.
ThreeTenths ==
    /\ StateHandled
    /\ Len(StateBuffer) >= 2
    /\ FirstBracket # 0
    /\ With(StateBuffer[FirstBracket], LAMBDA from :
       With(StateBuffer[FirstBracket + 1], LAMBDA to :
          /\ 10 * (RenderTime - from.timestamp)
                = 3 * (to.timestamp - from.timestamp)
          /\ to.state.players[2].x = from.state.players[2].x - 100
          /\ Val(lastCall.returned).players[2].x
                = from.state.players[2].x - 30
          /\ players[2].x = from.state.players[2].x - 30
          /\ from.state.players[1].sa = 3140
          /\ to.state.players[1].sa = -3100
          /\ Val(lastCall.returned).players[1].sa = 3153))

\* C17: the state getInterpolatedState returns always carries the
\* projectiles and the meteorites of the newest entry of the buffer,
\* whichever pair brackets the render time.
NewestEntitiesReturned ==
    (StateHandled /\ IsDef(lastCall.returned)) =>
        /\ Val(lastCall.returned).projectiles
              = StateBuffer[Len(StateBuffer)].state.projectiles
        /\ Val(lastCall.returned).meteorites
              = StateBuffer[Len(StateBuffer)].state.meteorites

\* C18: during a match on a client, a tick (_updateClient) changes neither
\* the players nor the projectiles, the meteorites or the match timer; they
\* change only in the handler of a state message or of an event message.
ClientOnlyApplies ==
    [][ (state = "COUNTDOWN" \/ state = "PLAYING") =>
          /\ lastCall'.op = "clientTick" => Replica' = Replica
          /\ Replica' # Replica => lastCall'.op \in {"state", "event"} ]_vars

\* A client has just taken a tick of a match in which an airborne player
\* and rounds in flight are replicated, and has sent its input.
ClientTicked ==
    /\ lastCall.op = "clientTick"
    /\ state = "PLAYING"
    /\ sent # << >>
    /\ projectiles # << >>
    /\ Len(players) = 2
    /\ ~players[2].isGrounded
    /\ players[2].alive

\* C19: when the connection to the host has closed while the client is in
\* the countdown or in a match, the client leaves that phase for a screen
\* that tells the user the match is over (the ranking screen or the menu):
\* it does not stay in PLAYING for ever.  The lobby, which the claim names
\* too, is left out of the formula: there no frame changes anything.
HostCloseEndsMatch ==
    (~HostOpen /\ state \in {"COUNTDOWN", "PLAYING"})
        ~> (state \in {"RANKING", "MENU"})

-----------------------------------------------------------------------------
(* The end of the match, the void and the respawn                          *)

\* The `end' messages among the messages of a list
EndMessages(msgs) == { i \in 1..Len(msgs) : msgs[i].type = "end" }

\* C21: at the last step of every host tick at which a player has reached
\* the kill target or the match timer has run out, exactly one `end'
\* message is handed to broadcast, carrying the counters of every player,
\* and the host moves to RANKING; once in RANKING the state stays RANKING,
\* no tick is enabled, and the match (players, entities, clocks) and the
\* list of messages broadcast do not change any more.
MatchEndsOnce ==
    [][ /\ (/\ pc = "finish"
            /\ \/ \E k \in 1..Len(players) : players[k].kills >= KILL_TARGET
               \/ matchTimer <= 0) =>
              /\ state' = "RANKING"
              /\ Cardinality(EndMessages(sent')) = 1
              /\ Cardinality(EndMessages(sent)) = 0
              /\ \A i \in EndMessages(sent') :
                    /\ Len(sent'[i].rankings) = Len(players)
                    /\ \A k \in 1..Len(players) :
                          /\ sent'[i].rankings[k].kills = players[k].kills
                          /\ sent'[i].rankings[k].deaths = players[k].deaths
                          /\ sent'[i].rankings[k].shotsFired =
                                players[k].shotsFired
                          /\ sent'[i].rankings[k].shotsHit =
                                players[k].shotsHit
                          /\ sent'[i].rankings[k].damageDealt =
                                players[k].damageDealt
        /\ state = "RANKING" =>
              /\ state' = "RANKING"
              /\ ~ENABLED EndTick
              /\ UNCHANGED << players, projectiles, meteorites, pickups,
                              pickupSpawnTimer, hazards, matchTimer,
                              gameTime, sent, pc, ticks >> ]_vars

\* The match has ended on the timer after its second tick, with a tick of
\* the exploration still to spare: the last message broadcast is the one
\* `end' message, right after the state of the last tick.
MatchEnded ==
    /\ state = "RANKING"
    /\ ticks = 2
    /\ ticks < EndTicks
    /\ pc = "input"
    /\ matchTimer = 0
    /\ \A k \in 1..Len(players) : players[k].kills < KILL_TARGET
    /\ Len(sent) >= 2
    /\ sent[Len(sent)].type = "end"
    /\ sent[Len(sent) - 1].type = "state"

\* Player k is alive and further than 2000 units from the centre of the map.
AliveInVoid(k) ==
    /\ players[k].alive
    /\ Length(players[k].x, players[k].y) > VOID_RADIUS

\* C22: once the void check and the respawn step of a tick have run, no
\* player is alive beyond the void boundary.
NoneAliveInVoid ==
    pc = "finish" => \A k \in 1..Len(players) : ~AliveInVoid(k)

\* The body a player is respawned on: planets[1 + index % (length - 1)]
AssignedBody(k) == Planets[2 + (players[k].index % (Len(Planets) - 1))]

\* C23: a player that dies has health 0, one more death and a respawn timer
\* of 3 s; while it is dead the timer loses one tick's time at the timer
\* step of each tick and at no other step, so 180 timer steps pass before
\* it is 0; a player comes back to life only at the respawn step of a tick
\* that finds the timer at 0 or less, and at the first such step it does:
\* it is then alive with full health, at rest, grounded at the surface
\* offset of its assigned body and invulnerable for 2 s.  The host, killed
\* during the first tick, is not alive again before 180 ticks are over.
\* While ticks are taken, a dead player is respawned at some time, unless
\* the match ends or the exploration stops first.
RespawnAfterThreeSeconds ==
    /\ [][ \A k \in 1..Len(players) :
            /\ (players[k].alive /\ ~players'[k].alive) =>
                  /\ players'[k].health = 0
                  /\ players'[k].deaths = players[k].deaths + 1
                  /\ players'[k].respawnTimer = RESPAWN_TIME
            /\ (~players[k].alive /\ ~players'[k].alive) =>
                  /\ players'[k].respawnTimer =
                        IF pc = "timers" /\ players[k].respawnTimer > 0
                        THEN players[k].respawnTimer - DT
                        ELSE players[k].respawnTimer
                  /\ players'[k].deaths = players[k].deaths
            /\ (~players[k].alive /\ players'[k].alive) =>
                  /\ pc = "respawn"
                  /\ players[k].respawnTimer <= 0
                  /\ players'[k].health = players[k].maxHealth
                  /\ players'[k].vx = 0
                  /\ players'[k].vy = 0
                  /\ players'[k].isGrounded
                  /\ players'[k].invulnerable = SPAWN_INVULNERABLE
                  /\ Abs(DistTo(players'[k].x, players'[k].y,
                                AssignedBody(k).x, AssignedBody(k).y)
                         - (AssignedBody(k).radius + SURFACE_OFFSET)) <= 1
            /\ (pc = "respawn" /\ ~players[k].alive
                  /\ players[k].respawnTimer <= 0) =>
                  players'[k].alive ]_vars
    /\ []((players[1].deaths = 1 /\ players[1].alive) =>
             ticks * DT >= RESPAWN_TIME)
    /\ \A k \in 1..2 :
          (~players[k].alive) ~>
              (players[k].alive \/ state = "RANKING" \/ ticks >= RespawnTicks)

\* The host, killed by the sniper round during the first tick, has just
\* been respawned in the 181st: it is alive with full health, at rest on
\* the ice core, and protected for two seconds.
HostRespawned ==
    /\ pc = "finish"
    /\ ticks * DT = RESPAWN_TIME
    /\ players[1].deaths = 1
    /\ players[1].alive
    /\ players[1].health = MAX_HEALTH
    /\ players[1].isGrounded
    /\ players[1].vx = 0 /\ players[1].vy = 0
    /\ players[1].invulnerable = SPAWN_INVULNERABLE
    /\ players[1].respawnTimer = 0

-----------------------------------------------------------------------------
(* The meteorite spawner                                                   *)

\* The time between the two latest spawn attempts
AttemptGap == Val(LastAttempt).time - Val(PrevAttempt).time

\* max(minInterval, baseInterval - escalationRate * t)
ExpectedInterval(t) ==
    IF BASE_INTERVAL - RDiv(t, 20) > MIN_INTERVAL
    THEN BASE_INTERVAL - RDiv(t, 20) ELSE MIN_INTERVAL

\* C24: of two consecutive spawn attempts made while no shower is active,
\* the second comes max(minInterval, baseInterval - escalationRate * t)
\* after the first, t being the spawner's time at the first, rounded up to
\* a whole tick, and never less than 1 s after it; of two consecutive
\* attempts made during a shower the second comes 0.3 s after the first;
\* and a shower is active from every multiple of 30 s of the spawner's time
\* on, for 5 s less one tick.
SpawnIntervals ==
    /\ (IsDef(LastAttempt) /\ IsDef(PrevAttempt)) =>
          /\ (~Val(PrevAttempt).shower /\ ~Val(LastAttempt).shower) =>
                /\ AttemptGap >= ExpectedInterval(Val(PrevAttempt).time)
                /\ AttemptGap <= ExpectedInterval(Val(PrevAttempt).time) + DT
                /\ AttemptGap >= MIN_INTERVAL
          /\ (Val(PrevAttempt).shower /\ Val(LastAttempt).shower) =>
                /\ AttemptGap >= SHOWER_SPAWN_INTERVAL
                /\ AttemptGap <= SHOWER_SPAWN_INTERVAL + DT
    /\ hazards.showerActive =>
          /\ hazards.gameTime >= SHOWER_INTERVAL
          /\ hazards.gameTime % SHOWER_INTERVAL < SHOWER_DURATION
    /\ (/\ hazards.gameTime >= SHOWER_INTERVAL
        /\ hazards.gameTime % SHOWER_INTERVAL < SHOWER_DURATION - DT) =>
          hazards.showerActive

\* A spawn has just been attempted in the second shower, 0.3 s after the
\* attempt before it, and the floor of 1 s was in force before the shower.
ShowerBurst ==
    /\ lastCall.op = "hazard"
    /\ lastCall.attempt
    /\ hazards.showerActive
    /\ hazards.gameTime > 2 * SHOWER_INTERVAL
    /\ IsDef(PrevAttempt)
    /\ Val(PrevAttempt).shower
    /\ Val(LastAttempt).shower
    /\ AttemptGap = SHOWER_SPAWN_INTERVAL
    /\ ExpectedInterval(hazards.gameTime) = MIN_INTERVAL

\* The interval the spawn timer is re-armed with at an attempt
EffectiveInterval(h) ==
    IF h.showerActive THEN SHOWER_SPAWN_INTERVAL
    ELSE ExpectedInterval(h.gameTime)

\* What the spawner keeps of the limit: the meteorite collection never holds
\* more than 16 meteorites, one more than the 15 the spawner compares the length
\* with; a spawn that comes due while more than 15 are held adds nothing,
\* the spawn timer is re-armed at every attempt, dropped or not, and between
\* attempts the spawner adds nothing and the timer only counts down, so a
\* dropped spawn is not made up for later.
SixteenMeteoritesAtMost ==
    /\ [](Len(meteorites) <= MAX_METEORITES + 1)
    /\ [][lastCall'.op = "hazard" =>
            /\ lastCall'.attempt <=> hazards.spawnTimer - DT <= 0
            /\ lastCall'.attempt =>
                  /\ hazards'.spawnTimer = EffectiveInterval(hazards')
                  /\ hazards'.spawnTimer > DT
                  /\ lastCall'.after =
                        IF lastCall'.before > MAX_METEORITES
                        THEN lastCall'.before
                        ELSE lastCall'.before + 1
            /\ ~lastCall'.attempt =>
                  /\ hazards'.spawnTimer = hazards.spawnTimer - DT
                  /\ lastCall'.after = lastCall'.before
            /\ lastCall'.before <= Len(meteorites)
            /\ Len(meteorites') <= lastCall'.after]_vars

\* A spawn has just come due with 16 meteorites in play: none was added and
\* the timer is armed with the shower's interval.
SpawnDropped ==
    /\ lastCall.op = "hazard"
    /\ lastCall.attempt
    /\ lastCall.before = MAX_METEORITES + 1
    /\ lastCall.after = MAX_METEORITES + 1
    /\ Len(meteorites) = MAX_METEORITES + 1
    /\ hazards.spawnTimer = SHOWER_SPAWN_INTERVAL

\* C25: the meteorite collection never holds more than the spawner's limit
\* of 15 meteorites.
AtMostFifteenMeteorites == Len(meteorites) <= MAX_METEORITES

-----------------------------------------------------------------------------
(* The wire format of the entities: serialize, then deserialize            *)

\* Round trips explored in a behaviour
MaxWire == 2

\* Pickup.serialize
SerializePickup(k) ==
    [ id |-> k.id, x |-> Round0(k.x), y |-> Round0(k.y), t |-> k.typeKey ]

\* Pickup.fromSerialized: the constructor draws the phase of the bobbing
PickupFromSerialized(data, time) ==
    NewPickup(data.id, data.x, data.y, data.t, time)

\* Planet.serialize
SerializePlanet(b) ==
    [ x |-> b.x, y |-> b.y, radius |-> b.radius, themeKey |-> b.themeKey,
      mass |-> b.mass ]

\* Planet.deserialize
DeserializePlanet(data) ==
    [ Planet(data.x, data.y, data.radius, data.themeKey)
        EXCEPT !.mass = data.mass ]

\* The duel a tick later, its rounds in flight between two pixels, with a
\* spinning meteorite on its way and the peer in the air.
FlightMatch ==
    [ DuelMatch EXCEPT
        !.players[2] = [VoidMatch.players[2] EXCEPT
                           !.currentWeapon = "SNIPER", !.shotsFired = 1,
                           !.shootCooldown = 500, !.shootCooldownMax = 600,
                           !.damageFlash = 50],
        !.projectiles = [k \in 1..Len(@) |-> ProjectileTick(@[k])],
        !.meteorites =
            << MeteoriteTick(
                   SpawnMeteorite(<< >>,
                       CHOOSE r \in MeteorSpawns : r.angle = HALF_PI)[1]) >> ]

InitWire ==
    \E m \in { StartMatch, SettledMatch, DuelMatch, DeadMatch, MeteorMatch,
               FlightMatch } :
        /\ players = m.players
        /\ projectiles = m.projectiles
        /\ meteorites = m.meteorites
        /\ pickups = m.pickups
        /\ pickupSpawnTimer = m.pickupSpawnTimer
        /\ hazards = m.hazards
        /\ inputBuffer = m.inputBuffer
        /\ matchTimer = m.matchTimer
        /\ gameTime = m.gameTime
        /\ state = "PLAYING"
        /\ events = << >>
        /\ sent = << >>
        /\ pc = "input"
        /\ ci = 0
        /\ ticks = 0
        /\ lastCall = NoCall
        /\ HostNet

\* What a round trip leaves alone
WireFrame ==
    /\ ticks < MaxWire
    /\ ticks' = ticks + 1
    /\ UNCHANGED << pickupSpawnTimer, hazards, inputBuffer, matchTimer,
                    gameTime, state, events, sent, pc, ci >>
    /\ UNCHANGED netVars

\* The record of a round trip: the entity, its wire form, the entity built
\* from that, and the wire form of the latter
WireCall(kind, entity, data, back, again) ==
    [ op |-> "wire", kind |-> kind, entity |-> entity, data |-> data,
      back |-> back, again |-> again ]

\* Player.fromSerialized(player.serialize()): the receiver holds the copy
WirePlayer ==
    /\ WireFrame
    /\ \E k \in 1..Len(players) :
       \E data \in { SerializePlayer(players[k]) } :
       \E back \in { PlayerFromSerialized(data) } :
         /\ players' = [players EXCEPT ![k] = back]
         /\ lastCall' = WireCall("Player", players[k], data, back,
                                 SerializePlayer(back))
    /\ UNCHANGED << projectiles, meteorites, pickups >>

\* Projectile.fromSerialized(projectile.serialize())
WireProjectile ==
    /\ WireFrame
    /\ \E k \in 1..Len(projectiles) :
       \E data \in { SerializeProjectile(projectiles[k]) } :
       \E back \in { ProjectileFromSerialized(data) } :
         /\ projectiles' = [projectiles EXCEPT ![k] = back]
         /\ lastCall' = WireCall("Projectile", projectiles[k], data, back,
                                 SerializeProjectile(back))
    /\ UNCHANGED << players, meteorites, pickups >>

\* Meteorite.fromSerialized(meteorite.serialize()): the constructor draws
\* the spin
WireMeteorite ==
    /\ WireFrame
    /\ \E k \in 1..Len(meteorites) :
       \E spin \in Spins :
       \E data \in { SerializeMeteorite(meteorites[k]) } :
       \E back \in { MeteoriteFromSerialized(data, spin) } :
         /\ meteorites' = [meteorites EXCEPT ![k] = back]
         /\ lastCall' = WireCall("Meteorite", meteorites[k], data, back,
                                 SerializeMeteorite(back))
    /\ UNCHANGED << players, projectiles, pickups >>

\* Pickup.fromSerialized(pickup.serialize())
WirePickup ==
    /\ WireFrame
    /\ \E k \in 1..Len(pickups) :
       \E time \in { 0, 3600 } :
       \E data \in { SerializePickup(pickups[k]) } :
       \E back \in { PickupFromSerialized(data, time) } :
         /\ pickups' = [pickups EXCEPT ![k] = back]
         /\ lastCall' = WireCall("Pickup", pickups[k], data, back,
                                 SerializePickup(back))
    /\ UNCHANGED << players, projectiles, meteorites >>

\* Planet.deserialize(planet.serialize()): the map is sent once, at the
\* start of the match
WirePlanet ==
    /\ WireFrame
    /\ \E k \in 1..Len(Planets) :
       \E data \in { SerializePlanet(Planets[k]) } :
       \E back \in { DeserializePlanet(data) } :
         lastCall' = WireCall("Planet", Planets[k], data, back,
                              SerializePlanet(back))
    /\ UNCHANGED << players, projectiles, meteorites, pickups >>

NextWire ==
    \/ WirePlayer
    \/ WireProjectile
    \/ WireMeteorite
    \/ WirePickup
    \/ WirePlanet

SpecWire == InitWire /\ [][NextWire]_vars

-----------------------------------------------------------------------------
(* The round trip over the wire                                            *)

\* Half of the last digit a field keeps on the wire: pixels for the
\* projectiles, meteorites and pickups, 0.01 rad for the angles, and 0.01 s
\* for the clocks; the players' positions keep 0.1 pixel, the model's unit
Rounding(kind, f) ==
    CASE f \in {"x", "y", "vx", "vy"} /\ kind \in {"Projectile", "Meteorite",
                                                    "Pickup"} -> 5
      [] f \in {"surfaceAngle", "rotation"} -> 5
      [] f \in {"age", "damageFlash", "respawnTimer", "invulnerable",
                "shootCooldown", "jumpCooldown"} -> 3
      [] OTHER -> 0

SameField(kind, f, a, b) ==
    IF Rounding(kind, f) = 0 THEN a = b
    ELSE Abs(a - b) <= Rounding(kind, f)

\* C26: the entity built from the wire form of an entity has every field of
\* the entity, up to the rounding of the wire.
RoundTripKeepsEveryField ==
    lastCall.op = "wire" =>
        \A f \in DOMAIN lastCall.entity :
            SameField(lastCall.kind, f, lastCall.entity[f], lastCall.back[f])

\* C27: the wire form of the entity built from a wire form is that wire
\* form: a second serialize/deserialize cycle changes no wire field.
SecondCycleChangesNothing ==
    lastCall.op = "wire" =>
        /\ lastCall.again = lastCall.data
        /\ \A f \in DOMAIN lastCall.data :
              lastCall.again[f] = lastCall.data[f]

\* A meteorite between two pixels, turned by a fraction of 0.01 rad, has
\* made the round trip a second time.
MeteoriteSentTwice ==
    /\ lastCall.op = "wire"
    /\ lastCall.kind = "Meteorite"
    /\ ticks = 2
    /\ lastCall.entity.x = lastCall.data.x
    /\ lastCall.entity.rotation = lastCall.data.rot
    /\ \E m \in { FlightMatch.meteorites[1] } :
          /\ m.x % 10 # 0
          /\ m.rotation % 10 # 0
          /\ lastCall.data.x = Round0(m.x)
          /\ lastCall.data.rot = RoundAngle(m.rotation)
          /\ lastCall.data.x # m.x

-----------------------------------------------------------------------------
(* The bound on the speed                                                  *)

SpeedSq(e) == e.vx * e.vx + e.vy * e.vy

\* At most MAX_VELOCITY, one unit of the model's velocities (0.1 pixel per
\* second) being allowed for the rounding of the clamped vector's components
WithinMaxVelocity(e) ==
    SpeedSq(e) <= (MAX_VELOCITY + 1) * (MAX_VELOCITY + 1)

\* C28, for the players: after every airborne step of the gravity update
\* (gravity, air control, clamp) the player's speed is at most MAX_VELOCITY,
\* whatever the jump or the recoil of the input step made of it before.
AirbornePlayersClamped ==
    [][(pc = "gravity" /\ pc' = "timers") =>
          \A k \in 1..Len(players) :
              (players[k].alive /\ ~players[k].isGrounded) =>
                  WithinMaxVelocity(players'[k])]_vars

\* The gravity step has just clamped an airborne player whom the recoil of
\* the input step had taken above the maximum.
ClampedInFlight ==
    /\ pc = "timers"
    /\ \E k \in 1..Len(players) :
          /\ players[k].alive
          /\ ~players[k].isGrounded
          /\ players[k].shotsFired > 0
          /\ WithinMaxVelocity(players[k])
          /\ Length(players[k].vx, players[k].vy) >= MAX_VELOCITY - 1

\* C28: for all entities, the players in the air, the projectiles and the
\* meteorites, the speed is at most MAX_VELOCITY after the step that
\* integrates them.
EveryEntityClamped ==
    /\ pc = "timers" =>
          \A k \in 1..Len(players) :
              (players[k].alive /\ ~players[k].isGrounded) =>
                  WithinMaxVelocity(players[k])
    /\ pc = "pickups" =>
          /\ \A k \in 1..Len(projectiles) :
                projectiles[k].active => WithinMaxVelocity(projectiles[k])
          /\ \A k \in 1..Len(meteorites) :
                meteorites[k].active => WithinMaxVelocity(meteorites[k])

-----------------------------------------------------------------------------
(* The frames of a client: the input sampled once, the ticks of the frame  *)

\* Ticks explored on the client
FrameTicks == 4

\* GameLoop.tick clamps the frame's time to maxAccumulator = 0.1 s, and less
\* than one tick is carried over: at most seven fixed steps run in a frame
MAX_FRAME_STEPS == 7

\* The camera: its centre and zoom (in hundredths), and the canvas
Camera(x, y, zoom) ==
    [ x |-> x, y |-> y, zoom |-> zoom, width |-> 8000, height |-> 6000 ]

\* The camera follows the players and shakes from tick to tick
Cameras == { Camera(5000, 0, 100), Camera(4800, -200, 80) }

\* Camera.screenToWorld
ScreenToWorld(cam, s) ==
    Vec2(RDiv((s.x - cam.width \div 2) * 100, cam.zoom) + cam.x,
         RDiv((s.y - cam.height \div 2) * 100, cam.zoom) + cam.y)

\* InputManager.getInput: the targets are client coordinates of the pointer
GetFrameInput(moveX, jump, shootTarget, aimTarget) ==
    [ moveX |-> moveX, jump |-> jump, shootTarget |-> shootTarget,
      aimTarget |-> aimTarget ]

\* What getInput can return: nothing held, the pointer moved, the pointer
\* pressed (which sets both targets)
ScreenInputs ==
    { GetFrameInput(0, FALSE, Undefined, Undefined),
      GetFrameInput(100, TRUE, Undefined, Def(Vec2(6000, 3000))),
      GetFrameInput(0, FALSE, Def(Vec2(6000, 3000)), Def(Vec2(6000, 3000))),
      GetFrameInput(0, FALSE, Def(Vec2(1000, 5000)), Def(Vec2(1000, 5000))) }

\* _updateClient, lines 528-533: the shoot target of the cached input is
\* replaced by its conversion, in the cached object itself
ConvertShootTarget(input, cam) ==
    IF IsDef(input.shootTarget)
    THEN [input EXCEPT !.shootTarget =
                           Def(ScreenToWorld(cam, Val(input.shootTarget)))]
    ELSE input

\* The fixed steps run so far in the current frame
StepsRun == IF lastCall.op = "frameStep" THEN lastCall.steps ELSE 0

\* What getInput returned for the current frame
Sampled ==
    IF lastCall.op = "frameStep" THEN Def(lastCall.sampled) ELSE Undefined

InitFrame ==
    /\ InitWarm
    /\ connections = {HostId}
    /\ peerPlayerMap = << >>
    /\ pickups = << >>
    /\ pickupSpawnTimer = 0
    /\ hazards = NewHazards
    /\ inputBuffer = Undefined
    /\ events = << >>
    /\ sent = << >>
    /\ pc = "client"
    /\ ci = 0
    /\ lastCall = NoCall

\* One fixed step of GameLoop.tick on a client in a match: Game.update
\* samples the input if the frame has none yet, and _updateClient converts
\* the shoot target of the cached input and hands the input to sendInput.
FrameStep ==
    /\ state = "PLAYING"
    /\ ticks < FrameTicks
    /\ StepsRun < MAX_FRAME_STEPS
    /\ \E raw \in IF IsDef(frameInput) THEN { Val(frameInput) }
                   ELSE ScreenInputs :
       \E cam \in IF IsDef(raw.shootTarget) THEN Cameras
                   ELSE { Camera(5000, 0, 100) } :
       \E localInput \in { ConvertShootTarget(raw, cam) } :
       \E r \in { UpdateClient(Replica, gameTime, Val(clientState).sendTimer,
                               localInput, HostOpen) } :
         /\ frameInput' = Def(localInput)
         /\ players' = r.players
         /\ projectiles' = r.projectiles
         /\ meteorites' = r.meteorites
         /\ matchTimer' = r.matchTimer
         /\ gameTime' = r.gameTime
         /\ clientState' = [clientState EXCEPT ![1].sendTimer = r.sendTimer]
         /\ sent' = r.sent
         /\ lastCall' = [ op |-> "frameStep",
                          sampled |-> IF IsDef(frameInput)
                                      THEN Val(Sampled) ELSE raw,
                          steps |-> StepsRun + 1 ]
    /\ ticks' = ticks + 1
    /\ UNCHANGED << state, now, connections, lobbyPlayers, channels >>
    /\ UNCHANGED hostVars

\* The end of GameLoop.tick's loop: Game.postUpdate drops the frame's input
PostUpdate ==
    /\ state = "PLAYING"
    /\ frameInput' = Undefined
    /\ sent' = << >>
    /\ lastCall' = [op |-> "postUpdate"]
    /\ UNCHANGED << players, projectiles, meteorites, matchTimer, gameTime,
                    state, clientState, now, connections, ticks,
                    lobbyPlayers, channels >>
    /\ UNCHANGED hostVars

NextFrame ==
    \/ FrameStep
    \/ PostUpdate

SpecFrame == InitFrame /\ [][NextFrame]_vars

-----------------------------------------------------------------------------
(* The targets of the inputs a client sends                                *)

\* p is the conversion of the screen point s under one of the cameras
ConvertedOnce(s, p) ==
    /\ IsDef(s) <=> IsDef(p)
    /\ IsDef(s) => \E cam \in Cameras : Val(p) = ScreenToWorld(cam, Val(s))

\* C29: every `input' message a client sends carries the shoot target and
\* the aim target the frame sampled, each converted from screen to world
\* coordinates exactly once, whatever the number of ticks run in the frame.
TargetsSentInWorldCoordinates ==
    \A i \in 1..Len(sent) :
        (sent[i].type = "input" /\ IsDef(Sampled)) =>
            /\ ConvertedOnce(Val(Sampled).shootTarget,
                             sent[i].input.shootTarget)
            /\ ConvertedOnce(Val(Sampled).aimTarget,
                             sent[i].input.aimTarget)

-----------------------------------------------------------------------------
(* The lobby of the host: connections that come in, open, close and fail   *)

\* Network events explored in the lobby
LobbyEvents == 8

\* this.maxPlayers of the NetworkManager, and the 4 of onPlayerJoin
MAX_PLAYERS == 4
MAX_LOBBY == 4

Peer3Id == "peer3"
Peer4Id == "peer4"

\* The peers that may try to join
LobbyPeers == { PeerId, Peer2Id, Peer3Id, Peer4Id }

\* Game._hostGame: the host alone in its lobby
InitLobbyHost ==
    /\ players = << >>
    /\ projectiles = << >>
    /\ meteorites = << >>
    /\ pickups = << >>
    /\ pickupSpawnTimer = 0
    /\ hazards = NewHazards
    /\ inputBuffer = Undefined
    /\ matchTimer = MATCH_TIME
    /\ gameTime = 0
    /\ state = "LOBBY"
    /\ events = << >>
    /\ sent = << >>
    /\ pc = "start"
    /\ ci = 0
    /\ ticks = 0
    /\ lastCall = NoCall
    /\ peerPlayerMap = << >>
    /\ connections = {}
    /\ clientState = Undefined
    /\ now = 0
    /\ frameInput = Undefined
    /\ lobbyPlayers = << LobbyEntry(0, Undefined) >>
    /\ channels = << >>
    /\ loop = NewGameLoop
    /\ inputManager = NewInputManager

\* What an event of the network leaves alone
LobbyFrame ==
    /\ state = "LOBBY"
    /\ ticks < LobbyEvents
    /\ ticks' = ticks + 1
    /\ UNCHANGED << players, projectiles, meteorites, pickups,
                    pickupSpawnTimer, hazards, inputBuffer, matchTimer,
                    gameTime, state, events, pc, ci, clientState, now,
                    frameInput, loop, inputManager >>

\* hostState.broadcastLobby: the message handed to the open connections
LobbyMessage(lobby) == [type |-> "lobby", players |-> lobby]

\* onPlayerJoin(peerId): the lobby and the map of the peers after it
PlayerJoin(lobby, map, peerId) ==
    IF Len(lobby) >= MAX_LOBBY
    THEN [ lobbyPlayers |-> lobby, peerPlayerMap |-> map, sent |-> << >> ]
    ELSE With(Append(lobby, LobbyEntry(Len(lobby), Def(peerId))),
              LAMBDA joined :
                [ lobbyPlayers |-> joined,
                  peerPlayerMap |->
                      [q \in DOMAIN map \cup {peerId} |->
                          IF q = peerId THEN Len(lobby) ELSE map[q]],
                  sent |-> << LobbyMessage(joined) >> ])

\* The connections.size >= maxPlayers - 1 of _handleConnection
LobbyFull(conns) == Cardinality(conns) >= MAX_PLAYERS - 1

\* peer.on('connection'): _handleConnection closes the connection if the
\* host has its three connections, and sets the handlers on it otherwise
HandleConnection ==
    /\ LobbyFrame
    /\ \E p \in LobbyPeers \ DOMAIN channels :
         /\ channels' = IF LobbyFull(connections) THEN channels
                        ELSE [q \in DOMAIN channels \cup {p} |->
                                 IF q = p THEN "connecting" ELSE channels[q]]
         /\ lastCall' = [op |-> "connection", peer |-> p,
                         refused |-> LobbyFull(connections)]
    /\ sent' = << >>
    /\ UNCHANGED << connections, peerPlayerMap, lobbyPlayers >>

\* The `open' handler: the connection is registered and onPlayerJoin runs
ConnectionOpens ==
    /\ LobbyFrame
    /\ \E p \in DOMAIN channels :
         /\ channels[p] = "connecting"
         /\ channels' = [channels EXCEPT ![p] = "open"]
         /\ connections' = connections \cup {p}
         /\ \E j \in { PlayerJoin(lobbyPlayers, peerPlayerMap, p) } :
              /\ lobbyPlayers' = j.lobbyPlayers
              /\ peerPlayerMap' = j.peerPlayerMap
              /\ sent' = j.sent
         /\ lastCall' = [op |-> "open", peer |-> p]

\* The `close' handlers (the one of _handleConnection, and the one of
\* _setupDataHandlers once the connection has opened): the connection is
\* deleted and onPlayerLeave runs
ConnectionCloses ==
    /\ LobbyFrame
    /\ \E p \in DOMAIN channels :
         /\ channels' = DeletePeer(channels, p)
         /\ connections' = connections \ {p}
         /\ peerPlayerMap' = DeletePeer(peerPlayerMap, p)
         /\ lobbyPlayers' = LobbyWithout(lobbyPlayers, p)
         /\ sent' = << LobbyMessage(LobbyWithout(lobbyPlayers, p)) >>
         /\ lastCall' = [op |-> "close", peer |-> p]

\* The `error' handler: the connection is deleted from the map, and nothing
\* else is told
ConnectionFails ==
    /\ LobbyFrame
    /\ \E p \in DOMAIN channels :
         /\ connections' = connections \ {p}
         /\ lastCall' = [op |-> "error", peer |-> p]
    /\ sent' = << >>
    /\ UNCHANGED << channels, peerPlayerMap, lobbyPlayers >>

\* Game._startGame: one player for every entry of the lobby
LobbyStart ==
    /\ state = "LOBBY"
    /\ Len(lobbyPlayers) >= 2
    /\ players' = [k \in 1..Len(lobbyPlayers) |->
                      StartPlayer(IF IsDef(lobbyPlayers[k].peerId)
                                  THEN Val(lobbyPlayers[k].peerId)
                                  ELSE HostId, k - 1)]
    /\ sent' = << [type |-> "start",
                   players |-> [k \in 1..Len(lobbyPlayers) |->
                                   SerializePlayer(players'[k])]] >>
    /\ projectiles' = << >>
    /\ meteorites' = << >>
    /\ matchTimer' = MATCH_TIME
    /\ gameTime' = 0
    /\ hazards' = HazardReset(hazards)
    /\ state' = "COUNTDOWN"
    /\ lastCall' = [op |-> "startGame"]
    /\ UNCHANGED << pickups, pickupSpawnTimer, inputBuffer, events, pc, ci,
                    ticks >>
    /\ UNCHANGED netVars

NextLobby ==
    \/ HandleConnection
    \/ ConnectionOpens
    \/ ConnectionCloses
    \/ ConnectionFails
    \/ LobbyStart

SpecLobby == InitLobbyHost /\ [][NextLobby]_vars

-----------------------------------------------------------------------------
(* The size of the lobby                                                   *)

\* C30: at most 3 client connections are registered, and the lobby and the
\* match started from it hold at most 4 players.
AtMostFourInTheGame ==
    /\ Cardinality(connections) <= MAX_PLAYERS - 1
    /\ Len(lobbyPlayers) <= MAX_LOBBY
    /\ Len(players) <= MAX_LOBBY

-----------------------------------------------------------------------------
(* The order of the steps of a host tick                                   *)

\* The steps of _updateHost, in the order of its statements
StepOrder ==
    << "input", "gravity", "timers", "entities", "pickups", "hazards",
       "collision", "respawn", "finish" >>

Position(step) == CHOOSE i \in 1..Len(StepOrder) : StepOrder[i] = step

\* Player k jumped in the input step of the tick recorded last
JumpedThisTick(call, k, time) ==
    /\ call.op = "tick"
    /\ call.jumpedAt[k] = Def(time)

CountedDown(t) == IF t > 0 THEN t - DT ELSE t

\* The messages of a list that are of one of the given types
OfTypes(msgs, types) == \A i \in 1..Len(msgs) : msgs[i].type \in types

-----------------------------------------------------------------------------
(* The events of a tick on the wire                                        *)

\* The events of the messages of a list that carry an event of
\* CollisionSystem.update (the pickup events are broadcast by _updateHost
\* itself)
CollisionEventsSent(msgs) ==
    With(SelectSeq(msgs, LAMBDA m : m.type = "event"
                                    /\ m.event.type # "pickup"),
         LAMBDA ms : [i \in 1..Len(ms) |-> ms[i].event])

\* The positions of the `state' messages of a list
StateMessages(msgs) == { i \in 1..Len(msgs) : msgs[i].type = "state" }

-----------------------------------------------------------------------------
(* The removal of spent projectiles and meteorites                         *)

\* Ticks explored from each match
CleanupTicks == 2

\* Above the crystal body of the inner ring a pellet is about to enter the
\* ground and a meteorite to hit it; far from every body a pellet and a
\* meteorite are one tick from the end of their lifetime, and a pellet and
\* a meteorite fly on.
SpentMatch ==
    [ SettledMatch EXCEPT
        !.projectiles =
            << NewProjectile(0, 4290, 0, 12000, HostId),
               [NewProjectile(0, -15000, 1000, 0, PeerId)
                  EXCEPT !.age = 1800 - DT],
               NewProjectile(300, -15000, 1000, 0, HostId) >>,
        !.meteorites =
            << NewMeteorite(0, 4180, 0, 1500, 200, 0, 0),
               [NewMeteorite(0, -16000, 1000, 0, 100, 0, 0)
                  EXCEPT !.age = 6000 - DT],
               NewMeteorite(300, -16000, 1000, 0, 100, 0, 0) >> ]

InitCleanup ==
    \E m \in { SpentMatch, MeteorMatch, DuelMatch } :
        /\ players = m.players
        /\ projectiles = m.projectiles
        /\ meteorites = m.meteorites
        /\ pickups = m.pickups
        /\ pickupSpawnTimer = m.pickupSpawnTimer
        /\ hazards = m.hazards
        /\ inputBuffer = m.inputBuffer
        /\ matchTimer = m.matchTimer
        /\ gameTime = m.gameTime
        /\ state = "PLAYING"
        /\ events = << >>
        /\ sent = << >>
        /\ pc = "input"
        /\ ci = 0
        /\ ticks = 0
        /\ lastCall = NoCall
        /\ HostNet

CleanupTick == TickInput(LocalInputs, CleanupTicks)

NextCleanup ==
    \/ CleanupTick
    \/ HostGravity
    \/ HostTimers
    \/ HostEntities
    \/ HostPickups
    \/ HostHazards
    \/ HostCollision
    \/ HostRespawn
    \/ HostFinish

SpecCleanup == InitCleanup /\ [][NextCleanup]_vars

\* C33: from the end of CollisionSystem.update to the end of the tick the
\* projectile and the meteorite collection hold active entities only; the
\* update keeps, in their order, entities that were active before it and
\* takes out every entity that was inactive before it (its lifetime had run
\* out in the entity step) or that it deactivated itself; and the state
\* message of the tick carries one entry for each entity left, none for an
\* inactive one.
OnlyActiveAfterCollision ==
    [][ /\ pc = "collision" =>
              /\ \A i \in 1..Len(projectiles') : projectiles'[i].active
              /\ \A i \in 1..Len(meteorites') : meteorites'[i].active
              /\ projectiles' =
                    SelectSeq(projectiles,
                              LAMBDA q : \E i \in 1..Len(projectiles') :
                                            projectiles'[i] = q)
              /\ meteorites' =
                    SelectSeq(meteorites,
                              LAMBDA m : \E i \in 1..Len(meteorites') :
                                            meteorites'[i] = m)
              /\ Len(projectiles') <=
                    Cardinality({ i \in 1..Len(projectiles) :
                                     projectiles[i].active })
                    - Cardinality({ i \in 1..Len(events') :
                                       events'[i].type \in {"hit", "kill"}
                                       /\ (events'[i].type = "kill" =>
                                             events'[i].killerId
                                                # "__meteorite") })
              /\ Len(meteorites') =
                    Cardinality({ i \in 1..Len(meteorites) :
                                     meteorites[i].active })
                    - Cardinality({ i \in 1..Len(events') :
                                       events'[i].type = "meteorite_impact" })
        /\ pc \in {"respawn", "finish"} =>
              /\ \A i \in 1..Len(projectiles) : projectiles[i].active
              /\ \A i \in 1..Len(meteorites) : meteorites[i].active
              /\ UNCHANGED << projectiles, meteorites >>
        /\ pc = "finish" =>
              /\ Len(sent'[Len(sent) + 1].state.projectiles)
                    = Len(projectiles)
              /\ Len(sent'[Len(sent) + 1].state.meteorites)
                    = Len(meteorites) ]_vars

\* The collision step of the first tick has taken out of the two
\* collections the pellet that entered the ground, the pellet and the
\* meteorite whose lifetime ran out in the entity step, and the meteorite
\* that hit the body: one of each is left, plus what was fired in the tick.
SpentRemoved ==
    /\ pc = "respawn"
    /\ ticks = 0
    /\ \E i \in 1..Len(events) : events[i].type = "meteorite_impact"
    /\ Len(meteorites) = 1
    /\ meteorites[1].age = DT
    /\ \E i \in 1..Len(projectiles) :
          projectiles[i].age = DT /\ projectiles[i].y = -15000
    /\ ~\E i \in 1..Len(projectiles) : projectiles[i].age >= 1800
    /\ ~\E i \in 1..Len(projectiles) : projectiles[i].y > 4000

\* Meteorite m overlaps player p, who can be hit (lines 90-96 of
\* CollisionSystem.update)
MeteoriteHits(m, p) ==
    /\ p.alive
    /\ p.invulnerable <= 0
    /\ CircleCollision(m.x, m.y, m.radius, p.x, p.y, PLAYER_RADIUS + 20)

\* Meteorite m overlaps a body (lines 119-122)
MeteoriteLands(m) ==
    \E n \in PlanetIdx :
        CircleCollision(m.x, m.y, RDiv(m.radius, 2),
                        Planets[n].x, Planets[n].y, Planets[n].radius)

\* Meteorite m is still in the collection after the step
Kept(m) == \E j \in 1..Len(meteorites') : meteorites'[j] = m

\* What the code keeps of the removal of meteorites: a meteorite is out of
\* the collection after the collision step of the tick in which it overlaps
\* a body or in which its age has reached its lifetime of 10 s, and a
\* meteorite that does neither stays.
MeteoriteGoneOnImpactOrAge ==
    [][ /\ pc = "entities" =>
              \A i \in 1..Len(meteorites) :
                 meteorites'[i].active =
                    (meteorites[i].active
                     /\ meteorites[i].age + DT < 6000)
        /\ pc = "collision" =>
              \A i \in 1..Len(meteorites) :
                 Kept(meteorites[i]) =
                    (meteorites[i].active /\ ~MeteoriteLands(meteorites[i]))
      ]_vars

\* C34: a meteorite that overlaps a player it can hit, or a body, when
\* CollisionSystem.update runs, is not in the collection after that update,
\* and neither is a meteorite whose age has reached its lifetime.
MeteoriteGoneOnCollision ==
    [][ pc = "collision" =>
           \A i \in 1..Len(meteorites) :
              ( \/ ~meteorites[i].active
                \/ MeteoriteLands(meteorites[i])
                \/ \E k \in 1..Len(players) :
                      MeteoriteHits(meteorites[i], players[k]) )
              => ~Kept(meteorites[i]) ]_vars

-----------------------------------------------------------------------------
(* The fixed-step loop                                                     *)

\* Frames explored
LoopFrames == 4

\* The time between two animation frames, in 1/6000 s: none, a 144 Hz and a
\* 60 Hz display, frames that come a little early or late, a slow frame and
\* a tab that was hidden for half a second
FrameDeltas == { 0, 42, 99, 100, 167, 601, 3000 }

\* tick, lines 527-528: the delta without the clamp
ClampDeltaOff(dt) == dt

\* tick, lines 527-528: if (dt > this.maxAccumulator) dt = this.maxAccumulator
ClampDelta(dt) == IF dt > MAX_ACCUMULATOR THEN MAX_ACCUMULATOR ELSE dt

\* tick, lines 532-535: the while loop; `calls' are the calls of update made
\* so far, each with the dt it was given
RECURSIVE CatchUp(_, _)
CatchUp(accumulator, calls) ==
    IF accumulator >= FIXED_DT
    THEN CatchUp(accumulator - FIXED_DT,
                 Append(calls, [fn |-> "update", dt |-> FIXED_DT]))
    ELSE [accumulator |-> accumulator, calls |-> calls]

\* GameLoop.tick(timestamp): the loop afterwards and the calls made, in
\* order
GameLoopTick(l, timestamp) ==
    IF ~l.running THEN [loop |-> l, calls |-> << >>]
    ELSE With(CatchUp(l.accumulator + ClampDelta(timestamp - l.lastTime),
                      << >>),
              LAMBDA c :
                [ loop |-> [l EXCEPT !.lastTime = timestamp,
                                     !.accumulator = c.accumulator],
                  calls |-> c.calls
                            \o << [fn |-> "postUpdate"],
                                  [fn |-> "render",
                                   accumulator |-> c.accumulator] >> ])

\* An animation frame of the host in its lobby, where Game.update only
\* animates the background: GameLoop.tick runs, and Game.postUpdate drops
\* the frame's input.
LoopFrame ==
    /\ state = "LOBBY"
    /\ ticks < LoopFrames
    /\ \E d \in FrameDeltas :
       \E r \in { GameLoopTick(loop, loop.lastTime + d) } :
         /\ loop' = r.loop
         /\ lastCall' = [op |-> "frame", delta |-> d, calls |-> r.calls]
    /\ frameInput' = Undefined
    /\ ticks' = ticks + 1
    /\ UNCHANGED << players, projectiles, meteorites, pickups,
                    pickupSpawnTimer, hazards, inputBuffer, matchTimer,
                    gameTime, state, events, sent, pc, ci, peerPlayerMap,
                    connections, clientState, now, lobbyPlayers, channels,
                    inputManager >>

NextLoop == LoopFrame

SpecLoop == InitLobbyHost /\ [][NextLoop]_vars

\* The positions of the calls of one function in the calls of a frame
CallsOf(calls, fn) == { i \in 1..Len(calls) : calls[i].fn = fn }

\* C35: in every frame update is called with fixedDt only, at most seven
\* times, once for every whole fixedDt of the accumulator and the frame's
\* delta cut at 0.1 s; postUpdate is called once, after every update of the
\* frame; and render is called last, with an accumulator of at least 0 and
\* less than fixedDt.
FixedStepFrames ==
    [][ lastCall'.op = "frame" =>
          LET calls == lastCall'.calls
              updates == CallsOf(calls, "update")
              taken == IF lastCall'.delta > MAX_ACCUMULATOR
                       THEN MAX_ACCUMULATOR ELSE lastCall'.delta
          IN  /\ \A i \in updates : calls[i].dt = FIXED_DT
              /\ Cardinality(updates) <= 7
              /\ Cardinality(updates) * FIXED_DT + loop'.accumulator
                    = loop.accumulator + taken
              /\ Cardinality(CallsOf(calls, "postUpdate")) = 1
              /\ \A i \in updates, j \in CallsOf(calls, "postUpdate") : i < j
              /\ CallsOf(calls, "render") = { Len(calls) }
              /\ calls[Len(calls)].accumulator = loop'.accumulator
              /\ loop'.accumulator >= 0
              /\ loop'.accumulator < FIXED_DT
              /\ frameInput' = Undefined ]_vars

\* A frame that came after a long pause has run seven updates: the
\* accumulator held all but a hair of a step, and the delta was cut.
SevenUpdates ==
    /\ lastCall.op = "frame"
    /\ lastCall.delta > MAX_ACCUMULATOR
    /\ Cardinality(CallsOf(lastCall.calls, "update")) = 7

-----------------------------------------------------------------------------
(* The keyboard jump from the key to the simulation                        *)

\* Fixed steps explored
KeyTicks == 4

\* A host in a settled match, or a client in a match
InitKeys ==
    \/ InitFrame
    \/ /\ players = SettledMatch.players
       /\ projectiles = SettledMatch.projectiles
       /\ meteorites = SettledMatch.meteorites
       /\ pickups = SettledMatch.pickups
       /\ pickupSpawnTimer = SettledMatch.pickupSpawnTimer
       /\ hazards = SettledMatch.hazards
       /\ inputBuffer = SettledMatch.inputBuffer
       /\ matchTimer = SettledMatch.matchTimer
       /\ gameTime = SettledMatch.gameTime
       /\ state = "PLAYING"
       /\ events = << >>
       /\ sent = << >>
       /\ pc = "input"
       /\ ci = 0
       /\ ticks = 0
       /\ lastCall = NoCall
       /\ HostNet

\* No frame is under way: event handlers run between two calls of
\* GameLoop.tick
BetweenFrames ==
    /\ state = "PLAYING"
    /\ pc \in {"input", "client"}
    /\ frameInput = Undefined
    /\ lastCall.op # "keysStep"

\* The keydown handler for Space, ArrowUp or KeyW (lines 254-258)
KeyDown ==
    /\ BetweenFrames
    /\ ~inputManager.jumpOneShot
    /\ inputManager' = [inputManager EXCEPT !.jumpOneShot = TRUE]
    /\ UNCHANGED << players, projectiles, meteorites, pickups,
                    pickupSpawnTimer, hazards, inputBuffer, matchTimer,
                    gameTime, state, events, sent, pc, ci, ticks, lastCall,
                    peerPlayerMap, connections, clientState, now,
                    frameInput, lobbyPlayers, channels, loop >>

\* The handlers of the jump button: pressed and released
JumpButton ==
    /\ BetweenFrames
    /\ inputManager' = [inputManager EXCEPT !.jumpHeld = ~@]
    /\ UNCHANGED << players, projectiles, meteorites, pickups,
                    pickupSpawnTimer, hazards, inputBuffer, matchTimer,
                    gameTime, state, events, sent, pc, ci, ticks, lastCall,
                    peerPlayerMap, connections, clientState, now,
                    frameInput, lobbyPlayers, channels, loop >>

\* InputManager.getInput with no key, pointer or joystick but the jump key
\* and the jump button: the input returned and the manager afterwards
GetInputOf(im) ==
    [ input |-> GetFrameInput(0, im.jumpHeld \/ im.jumpOneShot, Undefined,
                              Undefined),
      inputManager |-> [im EXCEPT !.jumpOneShot = FALSE] ]

\* Game.update, lines 339-341: the input of the frame is sampled if the
\* frame has none yet
SampleOnce(cached, im) ==
    IF IsDef(cached) THEN [input |-> Val(cached), inputManager |-> im]
    ELSE GetInputOf(im)

\* The record of the frame under way: the fixed steps run, and whether the
\* sampling of the frame consumed a keyboard jump
KeysFrame ==
    IF lastCall.op = "keysStep" THEN lastCall
    ELSE [op |-> "keysStep", steps |-> 0, oneShot |-> FALSE]

\* A fixed step of a frame on a client: Game.update samples the input if
\* need be and runs _updateClient, which hands the input to sendInput.
ClientKeysStep ==
    /\ IsDef(clientState)
    /\ state = "PLAYING"
    /\ ticks < KeyTicks
    /\ KeysFrame.steps < MAX_FRAME_STEPS
    /\ \E s \in { SampleOnce(frameInput, inputManager) } :
       \E localInput \in { ConvertShootTarget(s.input, Camera(5000, 0, 100)) } :
       \E r \in { UpdateClient(Replica, gameTime, Val(clientState).sendTimer,
                               localInput, HostOpen) } :
         /\ frameInput' = Def(localInput)
         /\ inputManager' = s.inputManager
         /\ players' = r.players
         /\ projectiles' = r.projectiles
         /\ meteorites' = r.meteorites
         /\ matchTimer' = r.matchTimer
         /\ gameTime' = r.gameTime
         /\ clientState' = [clientState EXCEPT ![1].sendTimer = r.sendTimer]
         /\ sent' = sent \o r.sent
         /\ lastCall' = [ op |-> "keysStep", steps |-> KeysFrame.steps + 1,
                          oneShot |-> IF IsDef(frameInput)
                                      THEN KeysFrame.oneShot
                                      ELSE inputManager.jumpOneShot ]
    /\ ticks' = ticks + 1
    /\ UNCHANGED << state, now, connections, lobbyPlayers, channels,
                    pickups, pickupSpawnTimer, hazards, inputBuffer, events,
                    pc, ci, peerPlayerMap, loop >>

\* The first step of a host tick in a frame: Game.update samples the input
\* if need be, and _updateHost applies it to the host's player.
HostKeysTick ==
    /\ ~IsDef(clientState)
    /\ \E s \in { SampleOnce(frameInput, inputManager) } :
         /\ TickWith({ s.input }, KeyTicks)
         /\ frameInput' = Def(s.input)
         /\ inputManager' = s.inputManager
    /\ UNCHANGED << peerPlayerMap, connections, clientState, now,
                    lobbyPlayers, channels, loop >>

\* Game.postUpdate, at the end of GameLoop.tick's steps
KeysPostUpdate ==
    /\ state = "PLAYING"
    /\ pc \in {"input", "client"}
    /\ frameInput' = Undefined
    /\ sent' = << >>
    /\ lastCall' = [op |-> "postUpdate"]
    /\ UNCHANGED << players, projectiles, meteorites, pickups,
                    pickupSpawnTimer, hazards, inputBuffer, matchTimer,
                    gameTime, state, events, pc, ci, ticks, peerPlayerMap,
                    connections, clientState, now, lobbyPlayers, channels,
                    loop, inputManager >>

NextKeys ==
    \/ KeyDown
    \/ JumpButton
    \/ ClientKeysStep
    \/ HostKeysTick
    \/ HostGravity
    \/ HostTimers
    \/ HostEntities
    \/ HostPickups
    \/ HostHazards
    \/ HostCollision
    \/ HostRespawn
    \/ HostFinish
    \/ KeysPostUpdate

SpecKeys == InitKeys /\ [][NextKeys]_vars

\* The `input' messages of a list that carry a jump
JumpsSent(msgs) ==
    { i \in 1..Len(msgs) : msgs[i].type = "input" /\ msgs[i].input.jump }

\* What holds of the sampling: getInput is called only when the frame has
\* no input yet, the input it returned is the frame's input until postUpdate
\* drops it, and a keyboard jump is consumed by the sampling alone; on the
\* host a keyboard jump sampled for a frame is applied in the tick that
\* sampled it, and the host's player, on the ground, jumps in that tick.
SampledOncePerFrame ==
    [][ /\ IsDef(frameInput) =>
              \/ frameInput' = frameInput /\ inputManager' = inputManager
              \/ frameInput' = Undefined /\ lastCall'.op = "postUpdate"
        /\ (inputManager.jumpOneShot /\ ~inputManager'.jumpOneShot) =>
              /\ frameInput = Undefined
              /\ IsDef(frameInput')
              /\ Val(frameInput').jump
        /\ (~IsDef(clientState) /\ inputManager.jumpOneShot
            /\ ~inputManager'.jumpOneShot /\ players[1].alive
            /\ players[1].isGrounded) =>
              /\ lastCall'.op = "tick"
              /\ lastCall'.jumpedAt[1] = Def(gameTime')
              /\ ~players'[1].isGrounded ]_vars

\* C36: the input is sampled once per frame and stays as it is until
\* postUpdate drops it; and no keyboard jump consumed by the sampling is
\* lost: on the host it is applied in a tick of the frame, and on a client
\* an `input' message that carries the jump has been handed to the
\* connection by the time postUpdate drops the frame's input.
NoKeyboardJumpLost ==
    [][ /\ IsDef(frameInput) =>
              \/ frameInput' = frameInput
              \/ frameInput' = Undefined /\ lastCall'.op = "postUpdate"
        /\ (~IsDef(clientState) /\ inputManager.jumpOneShot
            /\ ~inputManager'.jumpOneShot /\ players[1].alive
            /\ players[1].isGrounded) =>
              lastCall'.jumpedAt[1] = Def(gameTime')
        /\ (IsDef(clientState) /\ lastCall.op = "keysStep"
            /\ lastCall.oneShot /\ lastCall'.op = "postUpdate") =>
              JumpsSent(sent) # {} ]_vars

-----------------------------------------------------------------------------
(* The players the peers drive                                             *)

\* The player the remote-input loop of _updateHost hands the input of a
\* peer to: this.players[playerIdx], or none
DrivenBy(map, ps, peerId) ==
    IF map[peerId] + 1 \in 1..Len(ps) THEN Def(map[peerId] + 1)
    ELSE Undefined

\* What holds of the map in the lobby and after the start: a peer has the
\* index its lobby entry carries, the index the lobby had entries when it
\* joined, and the peers of the lobby are the peers of the map.
MapHoldsIndexAtJoin ==
    /\ DOMAIN peerPlayerMap =
          { Val(lobbyPlayers[k].peerId) :
              k \in { j \in 1..Len(lobbyPlayers) :
                         IsDef(lobbyPlayers[j].peerId) } }
    /\ \A k \in 1..Len(lobbyPlayers) :
          IsDef(lobbyPlayers[k].peerId) =>
             peerPlayerMap[Val(lobbyPlayers[k].peerId)]
                = lobbyPlayers[k].index

\* C37: once a match has been started from the lobby, no two peers of the
\* map have the same index, and the index of every connected peer is the one
\* of the player with that peer's id, so that the input of a peer drives its
\* own player.
PeersDriveTheirOwnPlayers ==
    state = "COUNTDOWN" =>
       /\ \A p, q \in DOMAIN peerPlayerMap :
             peerPlayerMap[p] = peerPlayerMap[q] => p = q
       /\ \A p \in connections \cap DOMAIN peerPlayerMap :
             /\ IsDef(DrivenBy(peerPlayerMap, players, p))
             /\ players[Val(DrivenBy(peerPlayerMap, players, p))].id = p

-----------------------------------------------------------------------------
(* The accuracy of the ranking                                             *)

\* Ticks explored after the shot
ShotTicks == 8

\* The match two seconds in, both players having walked to the points of
\* their planets that face each other, 136 units apart.
FacingMatch ==
    [ SettledMatch EXCEPT
        !.players[1] = [Spawn(@, Planets[2], 0) EXCEPT !.invulnerable = 0],
        !.players[2] = [Spawn(@, Planets[3], PI) EXCEPT !.invulnerable = 0] ]

\* The host aims at the peer and holds the trigger, or does nothing
ShotInputs ==
    { NoInput,
      Input(0, FALSE, Def(Vec2(FacingMatch.players[2].x,
                               FacingMatch.players[2].y))) }

InitShots ==
    /\ players = FacingMatch.players
    /\ projectiles = FacingMatch.projectiles
    /\ meteorites = FacingMatch.meteorites
    /\ pickups = FacingMatch.pickups
    /\ pickupSpawnTimer = FacingMatch.pickupSpawnTimer
    /\ hazards = FacingMatch.hazards
    /\ inputBuffer = FacingMatch.inputBuffer
    /\ matchTimer = FacingMatch.matchTimer
    /\ gameTime = FacingMatch.gameTime
    /\ state = "PLAYING"
    /\ events = << >>
    /\ sent = << >>
    /\ pc = "input"
    /\ ci = 0
    /\ ticks = 0
    /\ lastCall = NoCall
    /\ HostNet

ShotTick == TickInput(ShotInputs, ShotTicks)

NextShots ==
    \/ ShotTick
    \/ HostGravity
    \/ HostTimers
    \/ HostEntities
    \/ HostPickups
    \/ HostHazards
    \/ HostCollision
    \/ HostRespawn
    \/ HostFinish

SpecShots == InitShots /\ [][NextShots]_vars

\* Ranking.show, lines 52-54: the accuracy shown for a player, in percent
\* (Math.round of a non-negative number is the floor of the number plus 1/2)
Accuracy(p) ==
    IF p.shotsFired > 0
    THEN (200 * p.shotsHit + p.shotsFired) \div (2 * p.shotsFired)
    ELSE 0

\* What holds of the counts: a shot is counted once, whatever the number of
\* its pellets, and a hit once for every pellet, a pellet hitting once at
\* most, so that a player has at most seven hits for a shot; the accuracy
\* shown is at most 700%.
HitsAtMostPellets ==
    \A k \in 1..Len(players) :
       /\ players[k].shotsHit <= PELLET_COUNT * players[k].shotsFired
       /\ Accuracy(players[k]) <= 100 * PELLET_COUNT

\* C38: every player has hit at most as many shots as it has fired, so that
\* the accuracy of the ranking is at most 100%.
HitsAtMostShots ==
    \A k \in 1..Len(players) :
       /\ players[k].shotsHit <= players[k].shotsFired
       /\ Accuracy(players[k]) <= 100

-----------------------------------------------------------------------------
(* The kill event of a death                                               *)

\* A list of messages holds a `kill' event that names the victim
KillBroadcast(msgs, victimId) ==
    \E i \in 1..Len(msgs) :
       /\ msgs[i].type = "event"
       /\ msgs[i].event.type = "kill"
       /\ msgs[i].event.victimId = victimId

\* Player k is alive before the step and dead after it
Dies(k) == players[k].alive /\ ~players'[k].alive

\* What holds of the deaths: a player dies in the locomotion step (lava),
\* in the collision step (projectile, meteorite) or in the step of the void
\* check, and a death of the collision step comes with a `kill' event that
\* names the victim, returned by CollisionSystem.update and handed to
\* broadcast in the same step.
CollisionDeathsBroadcast ==
    [][ \A k \in 1..Len(players) :
           Dies(k) =>
              /\ pc \in {"gravity", "collision", "respawn"}
              /\ pc = "collision" =>
                    /\ KillBroadcast(sent', players[k].id)
                    /\ \E i \in 1..Len(events') :
                          /\ events'[i].type = "kill"
                          /\ events'[i].victimId = players[k].id ]_vars

\* C39: whenever a player of the host goes from alive to dead, whatever
\* killed it, a `kill' event that names it is among the messages the host
\* has handed to broadcast in that tick.
EveryDeathBroadcast ==
    [][ \A k \in 1..Len(players) :
           Dies(k) => KillBroadcast(sent', players[k].id) ]_vars

-----------------------------------------------------------------------------
(* The end of every match                                                  *)

\* Ticks explored: the matches below have at most that many ticks to go
TimerTicks == 8

\* Matches with little of their three minutes left: nobody has fired, or
\* the duel is on
LastTicks ==
    { TimeLeftMatch(k * DT) : k \in { 1, 2, TimerTicks } }
       \cup { [DuelMatch EXCEPT !.matchTimer = k * DT] :
                 k \in { 1, TimerTicks } }

InitTimer ==
    \E m \in LastTicks :
        /\ players = m.players
        /\ projectiles = m.projectiles
        /\ meteorites = m.meteorites
        /\ pickups = m.pickups
        /\ pickupSpawnTimer = m.pickupSpawnTimer
        /\ hazards = m.hazards
        /\ inputBuffer = m.inputBuffer
        /\ matchTimer = m.matchTimer
        /\ gameTime = m.gameTime
        /\ state = "PLAYING"
        /\ events = << >>
        /\ sent = << >>
        /\ pc = "input"
        /\ ci = 0
        /\ ticks = 0
        /\ lastCall = NoCall
        /\ HostNet

\* The host stands still, or jumps
TimerInputs == { NoInput, Input(0, TRUE, Undefined) }

TimerTick == TickInput(TimerInputs, TimerTicks)

NextTimer ==
    \/ TimerTick
    \/ HostGravity
    \/ HostTimers
    \/ HostEntities
    \/ HostPickups
    \/ HostHazards
    \/ HostCollision
    \/ HostRespawn
    \/ HostFinish

\* The game loop keeps calling Game.update, and _updateHost runs to its
\* end each time.
SpecTimer ==
    /\ InitTimer
    /\ [][NextTimer]_vars
    /\ WF_vars(NextTimer)

\* C40: a match that is being played on the host reaches the ranking, the
\* game loop ticking: every tick takes dt off matchTimer, no other step
\* touches it, the match goes on after a tick only if matchTimer is still
\* above 0, and a tick that leaves matchTimer at 0 or below ends the match.
EveryMatchEnds ==
    /\ [][ /\ (pc = "input" /\ pc' = "gravity") =>
                 matchTimer' = matchTimer - DT
           /\ pc # "input" => matchTimer' = matchTimer
           /\ pc = "finish" =>
                 /\ matchTimer <= 0 => state' = "RANKING"
                 /\ state' = "PLAYING" => matchTimer > 0
           /\ state = "RANKING" => state' = "RANKING" ]_vars
    /\ (state = "PLAYING") ~> (state = "RANKING")

\* A match has run out of time: the tick that took matchTimer to 0 ended it,
\* nobody having reached the kill target
MatchTimedOut ==
    /\ state = "RANKING"
    /\ ticks > 1
    /\ matchTimer = 0
    /\ \A k \in 1..Len(players) : players[k].kills < KILL_TARGET

====
